---------------------------- MODULE Spec2Model ----------------------------
(***************************************************************************)
(* Model of src/src/utils/parallel_similarity_analyzer.py: the parallel    *)
(* near-duplicate detection pipeline (ParallelDeduplicationProcessor) and  *)
(* its pure scoring functions.                                             *)
(*                                                                         *)
(* Texts are sequences of one-character strings.  A Python float score is  *)
(* kept as an exact number: a rational <<n, d>> in lowest terms, and, for  *)
(* a cosine, its square (the cosine is never negative).  An insertion-     *)
(* ordered dict is a sequence of its items.  hashlib.md5 is taken to be    *)
(* collision free: the digest of a text is the tagged text itself.         *)
(***************************************************************************)
EXTENDS Integers, Sequences, FiniteSets, TLC

(***************************************************************************)
(* Bounds of the model.                                                    *)
(***************************************************************************)
\* most files the input directory holds
MaxFiles == 3
\* longest normalized content of a feature record drawn for the scorer
MaxLen == 4
\* most characters (whitespace, comments) normalization removed from a record
MaxPad == 2

(***************************************************************************)
(* Exact arithmetic for the float scores.                                  *)
(***************************************************************************)
RECURSIVE GCD(_, _)
GCD(a, b) == IF b = 0 THEN a ELSE GCD(b, a % b)

Abs(n) == IF n < 0 THEN -n ELSE n

\* the rational n/d (d > 0) in lowest terms
Rat(n, d) == LET g == GCD(Abs(n), d) IN <<n \div g, d \div g>>

Zero == Rat(0, 1)
One == Rat(1, 1)

RAdd(p, q) == Rat(p[1] * q[2] + q[1] * p[2], p[2] * q[2])
RSub(p, q) == Rat(p[1] * q[2] - q[1] * p[2], p[2] * q[2])
RMul(p, q) == Rat(p[1] * q[1], p[2] * q[2])
RLess(p, q) == p[1] * q[2] < q[1] * p[2]
RLeq(p, q) == p[1] * q[2] <= q[1] * p[2]

IsSquare(n) == \E k \in 0..n : k * k = n
ISqrt(n) == CHOOSE k \in 0..n : k * k = n

Min(a, b) == IF a <= b THEN a ELSE b
Max(a, b) == IF a >= b THEN a ELSE b

Range(s) == {s[i] : i \in 1..Len(s)}

\* Op(v), with v evaluated once
Bind(v, Op(_)) == CHOOSE r \in {Op(x) : x \in {v}} : TRUE


RECURSIVE SumOver(_, _)
\* sum(f[k] for k in S)
SumOver(S, f) ==
    IF S = {} THEN 0
    ELSE LET k == CHOOSE x \in S : TRUE IN f[k] + SumOver(S \ {k}, f)

(***************************************************************************)
(* A score: the number rat + sqrt(irr), both rationals.  irr is Zero       *)
(* unless the root is irrational, so a number has one representation and   *)
(* equality of scores is equality of representations.                      *)
(***************************************************************************)
Num(r) == [rat |-> r, irr |-> Zero]

\* sqrt(sq) for a rational sq >= 0
NumSqrt(sq) ==
    IF IsSquare(sq[1]) /\ IsSquare(sq[2])
    THEN [rat |-> Rat(ISqrt(sq[1]), ISqrt(sq[2])), irr |-> Zero]
    ELSE [rat |-> Zero, irr |-> sq]

\* x * k for a rational k >= 0
NumScale(x, k) == [rat |-> RMul(x.rat, k), irr |-> RMul(x.irr, RMul(k, k))]

\* x + y, at most one of them with an irrational part
NumAdd(x, y) ==
    [rat |-> RAdd(x.rat, y.rat), irr |-> IF x.irr = Zero THEN y.irr ELSE x.irr]

\* x >= t and x > t for a rational t
NumGeq(x, t) ==
    LET y == RSub(t, x.rat)
    IN  IF x.irr = Zero THEN RLeq(y, Zero)
        ELSE RLeq(y, Zero) \/ RLeq(RMul(y, y), x.irr)
NumGt(x, t) ==
    LET y == RSub(t, x.rat)
    IN  IF x.irr = Zero THEN RLess(y, Zero)
        ELSE RLess(y, Zero) \/ RLess(RMul(y, y), x.irr)
NumLess(x, t) == ~NumGeq(x, t)

NumOne == Num(One)
NumZero == Num(Zero)

(***************************************************************************)
(* difflib.SequenceMatcher(None, a, b).ratio(), as calculate_content_      *)
(* similarity calls it.  No junk is given, and the automatic junk          *)
(* heuristic only acts on a second text of 200 characters or more.         *)
(***************************************************************************)
\* a[i .. i+k-1] = b[j .. j+k-1]
MatchAt(a, b, i, j, k) ==
    /\ i + k - 1 <= Len(a)
    /\ j + k - 1 <= Len(b)
    /\ SubSeq(a, i, i + k - 1) = SubSeq(b, j, j + k - 1)

\* the longest matching block <<i, j, k>>: of the longest ones the first in
\* a, and of those the first in b; k = 0 when nothing matches
find_longest_match(a, b) ==
    LET sizes == {k \in 1..Min(Len(a), Len(b)) :
                    \E i \in 1..Len(a), j \in 1..Len(b) : MatchAt(a, b, i, j, k)}
    IN  IF sizes = {} THEN <<1, 1, 0>>
        ELSE LET k == CHOOSE x \in sizes : \A y \in sizes : y <= x
                 is == {i \in 1..Len(a) : \E j \in 1..Len(b) : MatchAt(a, b, i, j, k)}
                 i == CHOOSE x \in is : \A y \in is : x <= y
                 js == {j \in 1..Len(b) : MatchAt(a, b, i, j, k)}
                 j == CHOOSE x \in js : \A y \in js : x <= y
             IN  <<i, j, k>>

RECURSIVE MatchingSize(_, _)
\* the total size of get_matching_blocks(): the longest block, then the
\* same to its left and to its right
MatchingSize(a, b) ==
    IF Len(a) = 0 \/ Len(b) = 0 THEN 0
    ELSE Bind(find_longest_match(a, b), LAMBDA m :
             IF m[3] = 0 THEN 0
             ELSE m[3]
                  + MatchingSize(SubSeq(a, 1, m[1] - 1), SubSeq(b, 1, m[2] - 1))
                  + MatchingSize(SubSeq(a, m[1] + m[3], Len(a)),
                                 SubSeq(b, m[2] + m[3], Len(b))))

ratio(a, b) ==
    IF Len(a) + Len(b) = 0 THEN One
    ELSE Rat(2 * MatchingSize(a, b), Len(a) + Len(b))

(***************************************************************************)
(* The component similarities.                                             *)
(***************************************************************************)
\* a text longer than this is sampled
LargeContent == 10000
\* the longest sample
SampleLimit == 1000

Take(s, n) == SubSeq(s, 1, Min(n, Len(s)))

\* calculate_content_similarity with the two limits as parameters
content_similarity_sampled(content1, content2, large, limit) ==
    IF Len(content1) = 0 \/ Len(content2) = 0 THEN NumZero
    ELSE IF Len(content1) > large \/ Len(content2) > large
         THEN LET sample_size == Min(limit, Min(Len(content1), Len(content2)))
              IN  Num(ratio(Take(content1, sample_size), Take(content2, sample_size)))
         ELSE Num(ratio(content1, content2))

calculate_content_similarity(features1, features2) ==
    content_similarity_sampled(features1.normalized_content,
                               features2.normalized_content,
                               LargeContent, SampleLimit)

\* struct.get(key, 0)
Get(struct, key) == IF key \in DOMAIN struct THEN struct[key] ELSE 0

\* variant of lines 236-256 where two vectors of zero norm count as identical
\* (line 254 returning 1.0 when norm1 == 0 and norm2 == 0); C27 depends on
\* the difference
calculate_structural_similarity_zero_identical(features1, features2) ==
    LET struct1 == features1.structure_counts
        struct2 == features2.structure_counts
        all_keys == DOMAIN struct1 \cup DOMAIN struct2
        dot_product == SumOver(all_keys, [k \in all_keys |-> Get(struct1, k) * Get(struct2, k)])
        sq1 == SumOver(all_keys, [k \in all_keys |-> Get(struct1, k) * Get(struct1, k)])
        sq2 == SumOver(all_keys, [k \in all_keys |-> Get(struct2, k) * Get(struct2, k)])
    IN  IF DOMAIN struct1 = {} /\ DOMAIN struct2 = {} THEN NumOne
        ELSE IF DOMAIN struct1 = {} \/ DOMAIN struct2 = {} THEN NumZero
        ELSE IF sq1 = 0 /\ sq2 = 0 THEN NumOne
        ELSE IF sq1 = 0 \/ sq2 = 0 THEN NumZero
        ELSE NumSqrt(Rat(dot_product * dot_product, sq1 * sq2))

calculate_structural_similarity(features1, features2) ==
    LET struct1 == features1.structure_counts
        struct2 == features2.structure_counts
        all_keys == DOMAIN struct1 \cup DOMAIN struct2
        dot_product == SumOver(all_keys, [k \in all_keys |-> Get(struct1, k) * Get(struct2, k)])
        sq1 == SumOver(all_keys, [k \in all_keys |-> Get(struct1, k) * Get(struct1, k)])
        sq2 == SumOver(all_keys, [k \in all_keys |-> Get(struct2, k) * Get(struct2, k)])
    IN  IF DOMAIN struct1 = {} /\ DOMAIN struct2 = {} THEN NumOne
        ELSE IF DOMAIN struct1 = {} \/ DOMAIN struct2 = {} THEN NumZero
        ELSE IF sq1 = 0 \/ sq2 = 0 THEN NumZero
        ELSE NumSqrt(Rat(dot_product * dot_product, sq1 * sq2))

calculate_set_similarity(set1, set2) ==
    IF set1 = {} /\ set2 = {} THEN NumOne
    ELSE IF set1 = {} \/ set2 = {} THEN NumZero
    ELSE Num(Rat(Cardinality(set1 \cap set2), Cardinality(set1 \cup set2)))


(***************************************************************************)
(* Feature records and calculate_similarity_pair.                          *)
(***************************************************************************)
\* the keys of FastJavaScriptAnalyzer.structure_patterns
Categories == {"if_statements", "for_loops", "while_loops", "try_catch",
               "object_literals", "array_literals", "arrow_functions",
               "async_await"}

\* hashlib.md5(normalized.encode('utf-8')).hexdigest()
md5(normalized) == <<"md5", normalized>>

\* the empty dict an unreadable or empty file yields
EmptyDict == << >>
\* `not features`
IsEmptyDict(features) == DOMAIN features = {}

\* the Optional[SimilarityResult] that is no result
None == [none |-> TRUE]

\* weights = {'content': 0.4, 'structural': 0.3, 'function': 0.15, 'variable': 0.15}
weight_content == Rat(2, 5)
weight_structural == Rat(3, 10)
weight_function == Rat(3, 20)
weight_variable == Rat(3, 20)
\* if size_ratio < 0.5
SizeRatioLimit == Rat(1, 2)
\* if overall_sim < threshold * 0.7
PrescreenFactor == Rat(7, 10)

\* the reasons a result lists, in the order the code appends them
Reasons(content_sim, structural_sim, function_sim, variable_sim) ==
    (IF NumGt(content_sim, Rat(9, 10)) THEN <<"content">> ELSE << >>)
    \o (IF NumGt(structural_sim, Rat(9, 10)) THEN <<"structural">> ELSE << >>)
    \o (IF NumGt(function_sim, Rat(4, 5)) THEN <<"function">> ELSE << >>)
    \o (IF NumGt(variable_sim, Rat(4, 5)) THEN <<"variable">> ELSE << >>)

\* lines 155-165: the result of the quick digest check
exact_result(file1, file2) ==
    [file1 |-> file1, file2 |-> file2,
     overall_similarity |-> NumOne, structural_similarity |-> NumOne,
     content_similarity |-> NumOne, function_similarity |-> NumOne,
     variable_similarity |-> NumOne, is_duplicate |-> TRUE,
     similarity_reasons |-> <<"hash">>]

\* variant of lines 168-170 in which no pair is skipped for its sizes (the
\* test dropped); C12 depends on the difference
size_skipped_never(features1, features2) == FALSE

\* variant of lines 168-169 that skips on size_ratio > 0.5 (the comparison
\* reversed); C13 depends on the difference
size_skipped_reversed(features1, features2) ==
    RLess(SizeRatioLimit,
          Rat(Min(features1.file_size, features2.file_size),
              Max(features1.file_size, features2.file_size)))

\* lines 168-169: size_ratio < 0.5
size_skipped(features1, features2) ==
    RLess(Rat(Min(features1.file_size, features2.file_size),
              Max(features1.file_size, features2.file_size)), SizeRatioLimit)

\* variant of lines 172-215 with the comparison of line 192 reversed
\* (is_duplicate = overall_sim <= threshold); C11 depends on the difference
scored_result_reversed(file1, file2, features1, features2, threshold) ==
    Bind(calculate_content_similarity(features1, features2), LAMBDA content_sim :
    LET structural_sim == calculate_structural_similarity(features1, features2)
        function_sim == calculate_set_similarity(features1.functions, features2.functions)
        variable_sim == calculate_set_similarity(features1.variables, features2.variables)
        overall_sim ==
            NumAdd(NumAdd(NumScale(content_sim, weight_content),
                          NumScale(structural_sim, weight_structural)),
                   NumAdd(NumScale(function_sim, weight_function),
                          NumScale(variable_sim, weight_variable)))
    IN  IF NumLess(overall_sim, RMul(threshold, PrescreenFactor)) THEN None
        ELSE [file1 |-> file1, file2 |-> file2,
              overall_similarity |-> overall_sim,
              structural_similarity |-> structural_sim,
              content_similarity |-> content_sim,
              function_similarity |-> function_sim,
              variable_similarity |-> variable_sim,
              is_duplicate |-> ~NumGt(overall_sim, threshold),
              similarity_reasons |->
                  Reasons(content_sim, structural_sim, function_sim, variable_sim)])

\* variant of lines 172-215 with a strict pre-screen at line 188
\* (if overall_sim <= threshold * 0.7: return None); C25 depends on the
\* difference
scored_result_strict_prescreen(file1, file2, features1, features2, threshold) ==
    Bind(calculate_content_similarity(features1, features2), LAMBDA content_sim :
    LET structural_sim == calculate_structural_similarity(features1, features2)
        function_sim == calculate_set_similarity(features1.functions, features2.functions)
        variable_sim == calculate_set_similarity(features1.variables, features2.variables)
        overall_sim ==
            NumAdd(NumAdd(NumScale(content_sim, weight_content),
                          NumScale(structural_sim, weight_structural)),
                   NumAdd(NumScale(function_sim, weight_function),
                          NumScale(variable_sim, weight_variable)))
    IN  IF ~NumGt(overall_sim, RMul(threshold, PrescreenFactor)) THEN None
        ELSE [file1 |-> file1, file2 |-> file2,
              overall_similarity |-> overall_sim,
              structural_similarity |-> structural_sim,
              content_similarity |-> content_sim,
              function_similarity |-> function_sim,
              variable_similarity |-> variable_sim,
              is_duplicate |-> NumGeq(overall_sim, threshold),
              similarity_reasons |->
                  Reasons(content_sim, structural_sim, function_sim, variable_sim)])

\* lines 172-215: the weighted score, the pre-screen and the classification
scored_result(file1, file2, features1, features2, threshold) ==
    Bind(calculate_content_similarity(features1, features2), LAMBDA content_sim :
    LET structural_sim == calculate_structural_similarity(features1, features2)
        function_sim == calculate_set_similarity(features1.functions, features2.functions)
        variable_sim == calculate_set_similarity(features1.variables, features2.variables)
        overall_sim ==
            NumAdd(NumAdd(NumScale(content_sim, weight_content),
                          NumScale(structural_sim, weight_structural)),
                   NumAdd(NumScale(function_sim, weight_function),
                          NumScale(variable_sim, weight_variable)))
    IN  IF NumLess(overall_sim, RMul(threshold, PrescreenFactor)) THEN None
        ELSE [file1 |-> file1, file2 |-> file2,
              overall_similarity |-> overall_sim,
              structural_similarity |-> structural_sim,
              content_similarity |-> content_sim,
              function_similarity |-> function_sim,
              variable_similarity |-> variable_sim,
              is_duplicate |-> NumGeq(overall_sim, threshold),
              similarity_reasons |->
                  Reasons(content_sim, structural_sim, function_sim, variable_sim)])

\* variant of lines 146-215 with the size pre-filter (lines 167-170) moved
\* before the digest comparison (lines 153-165); C10 depends on the difference
calculate_similarity_pair_size_first(file1, file2, features1, features2, threshold) ==
    IF IsEmptyDict(features1) \/ IsEmptyDict(features2) THEN None
    ELSE IF size_skipped(features1, features2) THEN None
    ELSE IF features1.content_hash = features2.content_hash
         THEN exact_result(file1, file2)
    ELSE scored_result(file1, file2, features1, features2, threshold)

calculate_similarity_pair(file1, file2, features1, features2, threshold) ==
    IF IsEmptyDict(features1) \/ IsEmptyDict(features2) THEN None
    ELSE IF features1.content_hash = features2.content_hash
         THEN exact_result(file1, file2)
    ELSE IF size_skipped(features1, features2) THEN None
    ELSE scored_result(file1, file2, features1, features2, threshold)

(***************************************************************************)
(* The feature records the scorer is checked on: every normalized content  *)
(* over two letters up to MaxLen, sizes that count the characters          *)
(* normalization removed, and a few shapes of counts and name sets.        *)
(***************************************************************************)
Letters == {"a", "b"}
Contents == UNION {[1..n -> Letters] : n \in 0..MaxLen}

Counts(objects, arrays) ==
    [c \in Categories |-> IF c = "object_literals" THEN objects
                          ELSE IF c = "array_literals" THEN arrays ELSE 0]

Shapes ==
    { [structure_counts |-> Counts(0, 0), functions |-> {}, variables |-> {}],
      [structure_counts |-> Counts(1, 0), functions |-> {"f"}, variables |-> {"x"}],
      [structure_counts |-> Counts(1, 1), functions |-> {"f"}, variables |-> {"x", "y"}] }

FeatureRecord(normalized, pad, shape) ==
    [functions |-> shape.functions,
     variables |-> shape.variables,
     imports |-> {},
     webpack_modules |-> {},
     structure_counts |-> shape.structure_counts,
     content_hash |-> md5(normalized),
     normalized_content |-> normalized,
     file_size |-> Len(normalized) + pad,
     line_count |-> 1]

\* a file is never empty when it has features
FeatureRecords ==
    {FeatureRecord(n, p, s) : n \in Contents, p \in {0, MaxPad}, s \in Shapes}
    \ {FeatureRecord(<< >>, 0, s) : s \in Shapes}

Thresholds == {Rat(3, 5), Rat(4, 5), One}


(***************************************************************************)
(* FastJavaScriptAnalyzer.extract_features on texts over the characters    *)
(* a b space newline [ ] { } / * .  Every pattern that needs another       *)
(* character (function, var/let/const, import/require, the quoted module   *)
(* ids, if, for, while, try, =>, async/await) finds nothing in them.       *)
(***************************************************************************)
Whitespace == {" ", "\n"}

\* the first index >= from where text holds the two characters c1 c2, or 0
RECURSIVE FindTwo(_, _, _, _)
FindTwo(text, c1, c2, from) ==
    IF from + 1 > Len(text) THEN 0
    ELSE IF text[from] = c1 /\ text[from + 1] = c2 THEN from
    ELSE FindTwo(text, c1, c2, from + 1)

\* the first index >= from where text holds c, or 0
RECURSIVE FindOne(_, _, _)
FindOne(text, c, from) ==
    IF from > Len(text) THEN 0
    ELSE IF text[from] = c THEN from
    ELSE FindOne(text, c, from + 1)

\* comment_pattern.sub('', content) from index i on: with re.DOTALL the
\* '.*' of '//.*$' runs to the end of the text, and '/\*.*?\*/' ends at the
\* first '*/'
RECURSIVE StripComments(_, _)
StripComments(text, i) ==
    IF i > Len(text) THEN << >>
    ELSE IF i < Len(text) /\ text[i] = "/" /\ text[i + 1] = "/" THEN << >>
    ELSE IF i < Len(text) /\ text[i] = "/" /\ text[i + 1] = "*"
              /\ FindTwo(text, "*", "/", i + 2) # 0
         THEN StripComments(text, FindTwo(text, "*", "/", i + 2) + 2)
    ELSE <<text[i]>> \o StripComments(text, i + 1)

\* whitespace_pattern.sub(' ', text)
RECURSIVE CollapseWhitespace(_)
CollapseWhitespace(text) ==
    IF text = << >> THEN << >>
    ELSE Bind(CollapseWhitespace(Tail(text)), LAMBDA rest :
             IF Head(text) \in Whitespace
             THEN IF rest # << >> /\ Head(rest) = " " THEN rest ELSE <<" ">> \o rest
             ELSE <<Head(text)>> \o rest)

\* str.strip() of a text whose whitespace is collapsed
Strip(text) ==
    LET a == IF text # << >> /\ Head(text) = " " THEN Tail(text) ELSE text
    IN  IF a # << >> /\ a[Len(a)] = " " THEN SubSeq(a, 1, Len(a) - 1) ELSE a

\* len(pattern.findall(content)) for 'open [^close]* close', from index i on
RECURSIVE CountBracketed(_, _, _, _)
CountBracketed(text, open, close, i) ==
    LET o == FindOne(text, open, i)
        c == IF o = 0 THEN 0 ELSE FindOne(text, close, o + 1)
    IN  IF o = 0 \/ c = 0 THEN 0
        ELSE 1 + CountBracketed(text, open, close, c + 1)

RECURSIVE CountChar(_, _)
CountChar(text, c) ==
    IF text = << >> THEN 0
    ELSE (IF Head(text) = c THEN 1 ELSE 0) + CountChar(Tail(text), c)

extract_features(content) ==
    LET normalized == Strip(CollapseWhitespace(StripComments(content, 1)))
    IN  [functions |-> {},
         variables |-> {},
         imports |-> {},
         webpack_modules |-> {},
         structure_counts |->
             Counts(CountBracketed(content, "{", "}", 1),
                    CountBracketed(content, "[", "]", 1)),
         content_hash |-> md5(normalized),
         normalized_content |-> normalized,
         file_size |-> Len(content),
         line_count |-> CountChar(content, "\n") + 1]


(***************************************************************************)
(* The state of one call of process_directory, and of one call of          *)
(* calculate_similarity_pair.                                              *)
(***************************************************************************)
VARIABLES
    input_dir,             \* the input directory: exists, files (path -> text), unreadable
    broken,                \* the worker tasks whose future raises
    similarity_threshold,  \* self.similarity_threshold
    pc,                    \* where process_directory is
    js_files,              \* the discovered files, in os.walk order
    future_to_file,        \* extraction futures not yielded yet: path -> outcome
    features_dict,         \* path -> features, in insertion order
    hash_groups,           \* content hash -> paths, in insertion order
    exact_duplicate_groups,
    unique_files,          \* one representative per hash group
    file_pairs,            \* the scoring tasks' arguments
    future_to_pair,        \* scoring futures not yielded yet: index of file_pairs -> outcome
    similarity_results,
    similar_groups,
    output_dir,            \* what _generate_output wrote
    report,                \* the dict process_directory returns
    pair_args,             \* the argument of a lone calculate_similarity_pair call
    pair_result,           \* and what it returned
    frozen,                \* is_frozen()
    cpu_count,             \* mp.cpu_count()
    max_workers_arg,       \* the max_workers given to __init__: {} for None, {n} for n
    max_workers,           \* self.max_workers
    executor               \* the worker pool of the running phase

vars == <<input_dir, broken, similarity_threshold, pc, js_files, future_to_file,
          features_dict, hash_groups, exact_duplicate_groups, unique_files,
          file_pairs, future_to_pair, similarity_results, similar_groups,
          output_dir, report, pair_args, pair_result, frozen, cpu_count,
          max_workers_arg, max_workers, executor>>

pool_vars == <<frozen, cpu_count, max_workers_arg, max_workers, executor>>

pipeline_vars == <<input_dir, broken, similarity_threshold, pc, js_files,
                   future_to_file, features_dict, hash_groups,
                   exact_duplicate_groups, unique_files, file_pairs,
                   future_to_pair, similarity_results, similar_groups,
                   output_dir, report>>

(***************************************************************************)
(* The input directories the pipeline is run on.  A path is <<directory,   *)
(* base name>>; AllPaths is the order os.walk yields them in (a            *)
(* directory's own files before its subdirectories').                      *)
(***************************************************************************)
AllPaths == << <<"in", "a.js">>, <<"in", "b.js">>, <<"in", "c.js">>,
               <<"in/lib", "a.js">>, <<"in/lib", "d.js">> >>

\* os.path.basename
basename(path) == path[2]

\* two exact copies (a.js, b.js), near copies of them (c.js, lib/a.js), and
\* an unrelated file
Disk1 ==
    [p \in Range(AllPaths) |->
        CASE p = <<"in", "a.js">> -> <<"a", "[", "]">>
          [] p = <<"in", "b.js">> -> <<"a", "[", "]", "\n">>
          [] p = <<"in", "c.js">> -> <<"b", "[", "]">>
          [] p = <<"in/lib", "a.js">> -> <<"[", "]", "b">>
          [] p = <<"in/lib", "d.js">> -> <<"a", "b">>]

\* an empty file (b.js), a blank one (c.js), a copy of a.js under the same
\* base name whose comment makes it more than twice as long, and a near copy
Disk2 ==
    [p \in Range(AllPaths) |->
        CASE p = <<"in", "a.js">> -> <<"a", "[", "]">>
          [] p = <<"in", "b.js">> -> << >>
          [] p = <<"in", "c.js">> -> <<" ", "\n">>
          [] p = <<"in/lib", "a.js">> -> <<"a", "[", "]", "/", "*", "*", "/">>
          [] p = <<"in/lib", "d.js">> -> <<"[", "]", "a", " ">>]

\* a file (a.js), a near copy of it whose comment makes it more than twice
\* as long (c.js), and a near copy of both of a size in between
Disk3 ==
    [p \in {<<"in", "a.js">>, <<"in", "c.js">>, <<"in/lib", "d.js">>} |->
        CASE p = <<"in", "a.js">> -> <<"a", "[", "]">>
          [] p = <<"in", "c.js">> -> <<"b", "[", "]", "/", "*", "*", "/">>
          [] p = <<"in/lib", "d.js">> -> <<"b", "[", "]", "a", " ">>]

Disks == {Disk1, Disk2, Disk3}

InputDirs ==
    {[exists |-> FALSE, files |-> << >>, unreadable |-> {}]}
    \cup UNION {
        {[exists |-> TRUE, files |-> [p \in present |-> disk[p]], unreadable |-> u] :
            present \in {S \in SUBSET DOMAIN disk : Cardinality(S) <= MaxFiles},
            u \in {{}} \cup {{p} : p \in Range(AllPaths)}} : disk \in Disks}

\* for root, dirs, files in os.walk(input_dir): a missing directory yields
\* nothing (os.walk ignores the error of listing it)
walk(dir) == SelectSeq(AllPaths, LAMBDA p : p \in DOMAIN dir.files)

load_file_content(file_path) ==
    IF file_path \in input_dir.unreadable THEN << >>
    ELSE input_dir.files[file_path]

extract_file_features(file_path) ==
    LET content == load_file_content(file_path)
    IN  IF content = << >> THEN EmptyDict ELSE extract_features(content)


(***************************************************************************)
(* The single-threaded stages of process_directory.                        *)
(***************************************************************************)
\* features_dict[file_path]
FeaturesOf(dict, file_path) ==
    (CHOOSE item \in Range(dict) : item.file_path = file_path).features

\* variant of line 319 that opens a new bucket for every file (the buckets
\* keyed by the file instead of the digest); C15 depends on the difference
AddToGroup_always_new(groups, content_hash, file_path) ==
    Append(groups, [content_hash |-> content_hash, files |-> <<file_path>>])

\* hash_groups[content_hash].append(file_path)
AddToGroup(groups, content_hash, file_path) ==
    IF \E i \in 1..Len(groups) : groups[i].content_hash = content_hash
    THEN [i \in 1..Len(groups) |->
            IF groups[i].content_hash = content_hash
            THEN [groups[i] EXCEPT !.files = Append(@, file_path)]
            ELSE groups[i]]
    ELSE Append(groups, [content_hash |-> content_hash, files |-> <<file_path>>])

\* lines 316-319, over the first n items of features_dict
RECURSIVE BuildHashGroups(_, _)
BuildHashGroups(dict, n) ==
    IF n = 0 THEN << >>
    ELSE Bind(BuildHashGroups(dict, n - 1), LAMBDA groups :
             AddToGroup(groups, dict[n].features.content_hash, dict[n].file_path))

\* [group for group in groups if len(group) > 1]
LargerGroups(groups) == SelectSeq(groups, LAMBDA g : Len(g) > 1)

\* hash_groups.values()
GroupValues(groups) == [i \in 1..Len(groups) |-> groups[i].files]

\* variant of line 323 that keeps every member of every bucket as a candidate
\* (unique_files = all files instead of group[0]); C1 depends on the difference
RECURSIVE Representatives_all_members(_)
Representatives_all_members(groups) ==
    IF Len(groups) = 0 THEN << >>
    ELSE groups[1].files \o Representatives_all_members(Tail(groups))

\* line 323: the first member collected of every group
Representatives(groups) == [i \in 1..Len(groups) |-> groups[i].files[1]]

\* variant of lines 333-336 whose inner loop starts at i instead of i + 1
\* from the second row on, so that a candidate is paired with itself; C24
\* depends on the difference
RECURSIVE FilePairs_from_i(_, _, _, _, _)
FilePairs_from_i(files, dict, threshold, i, j) ==
    IF i > Len(files) THEN << >>
    ELSE IF j > Len(files) THEN FilePairs_from_i(files, dict, threshold, i + 1, i + 1)
    ELSE << [file1 |-> files[i], file2 |-> files[j],
             features1 |-> FeaturesOf(dict, files[i]),
             features2 |-> FeaturesOf(dict, files[j]),
             threshold |-> threshold] >>
         \o FilePairs_from_i(files, dict, threshold, i, j + 1)

\* lines 333-336: the pairs (i, j), i < j, in the order of the two loops
RECURSIVE FilePairs(_, _, _, _, _)
FilePairs(files, dict, threshold, i, j) ==
    IF i > Len(files) THEN << >>
    ELSE IF j > Len(files) THEN FilePairs(files, dict, threshold, i + 1, i + 2)
    ELSE << [file1 |-> files[i], file2 |-> files[j],
             features1 |-> FeaturesOf(dict, files[i]),
             features2 |-> FeaturesOf(dict, files[j]),
             threshold |-> threshold] >>
         \o FilePairs(files, dict, threshold, i, j + 1)

(***************************************************************************)
(* _build_similarity_groups: union-find with path compression.             *)
(***************************************************************************)
RECURSIVE Root(_, _)
Root(parent, x) == IF parent[x] = x THEN x ELSE Root(parent, parent[x])

RECURSIVE PathTo(_, _)
\* the nodes find(x) visits before the root
PathTo(parent, x) ==
    IF parent[x] = x THEN {} ELSE {x} \cup PathTo(parent, parent[x])

\* the parent map after find(x): every node visited points to the root
find(parent, x) ==
    [y \in DOMAIN parent |->
        IF y \in PathTo(parent, x) THEN Root(parent, x) ELSE parent[y]]

\* variant of lines 400-403 that links the two documents instead of their
\* roots (parent[x] = y); C19 depends on the difference
union_without_find(parent, x, y) ==
    IF x # y THEN [parent EXCEPT ![x] = y] ELSE parent

\* the parent map after union(x, y)
union(parent, x, y) ==
    LET p1 == find(parent, x)
        p2 == find(p1, y)
        px == Root(parent, x)
        py == Root(p1, y)
    IN  IF px # py THEN [p2 EXCEPT ![px] = py] ELSE p2

\* variant of lines 406-408 without the test "if result.is_duplicate"; C18
\* depends on the difference
RECURSIVE MergeResults_every_result(_, _, _)
MergeResults_every_result(parent, results, n) ==
    IF n = 0 THEN parent
    ELSE Bind(MergeResults_every_result(parent, results, n - 1), LAMBDA before :
             union(before, results[n].file1, results[n].file2))

\* lines 406-408, over the first n results
RECURSIVE MergeResults(_, _, _)
MergeResults(parent, results, n) ==
    IF n = 0 THEN parent
    ELSE Bind(MergeResults(parent, results, n - 1), LAMBDA before :
             IF results[n].is_duplicate
             THEN union(before, results[n].file1, results[n].file2)
             ELSE before)

\* groups[root].append(file), groups an insertion-ordered dict
AddToRoot(groups, root, file) ==
    IF \E i \in 1..Len(groups) : groups[i].root = root
    THEN [i \in 1..Len(groups) |->
            IF groups[i].root = root
            THEN [groups[i] EXCEPT !.files = Append(@, file)]
            ELSE groups[i]]
    ELSE Append(groups, [root |-> root, files |-> <<file>>])

\* lines 411-414, over the first n unique files: <<parent, groups>>
RECURSIVE CollectGroups(_, _, _)
CollectGroups(parent, files, n) ==
    IF n = 0 THEN <<parent, << >> >>
    ELSE Bind(CollectGroups(parent, files, n - 1), LAMBDA before :
             <<find(before[1], files[n]),
               AddToRoot(before[2], Root(before[1], files[n]), files[n])>>)

build_similarity_groups(results, files) ==
    LET parent == [f \in Range(files) |-> f]
    IN  Bind(MergeResults(parent, results, Len(results)), LAMBDA merged :
        Bind(CollectGroups(merged, files, Len(files))[2], LAMBDA groups :
             LargerGroups(GroupValues(groups))))


(***************************************************************************)
(* _generate_output.  A directory is a function from the names of the      *)
(* files in it to the source file each was copied from.                    *)
(***************************************************************************)
EmptyFolder == << >>

\* _copy_file(src, dest) into a folder: an unreadable source fails under
\* both encodings, which is printed and writes nothing
copy_file(folder, src) ==
    IF src \in input_dir.unreadable THEN folder
    ELSE [n \in DOMAIN folder \cup {basename(src)} |->
            IF n = basename(src) THEN src ELSE folder[n]]

\* variant of lines 507-521 without the two try blocks: the first failed
\* copy of a list leaves the loop and the copies after it are not made; C28
\* depends on the difference
RECURSIVE CopyAll_stop_at_failure(_, _, _)
CopyAll_stop_at_failure(folder, files, n) ==
    IF n = 0 THEN folder
    ELSE IF \E i \in 1..n : files[i] \in input_dir.unreadable
         THEN CopyAll_stop_at_failure(folder, files,
                  (CHOOSE i \in 1..n :
                       /\ files[i] \in input_dir.unreadable
                       /\ \A j \in 1..(i - 1) : files[j] \notin input_dir.unreadable) - 1)
         ELSE Bind(CopyAll_stop_at_failure(folder, files, n - 1), LAMBDA copied :
                  copy_file(copied, files[n]))

\* copy the first n files of a list, in order
RECURSIVE CopyAll(_, _, _)
CopyAll(folder, files, n) ==
    IF n = 0 THEN folder
    ELSE Bind(CopyAll(folder, files, n - 1), LAMBDA copied :
             copy_file(copied, files[n]))

\* the representative (group[0]) of the first n groups copied, in order
RECURSIVE CopyRepresentatives(_, _, _)
CopyRepresentatives(folder, groups, n) ==
    IF n = 0 THEN folder
    ELSE Bind(CopyRepresentatives(folder, groups, n - 1), LAMBDA copied :
             copy_file(copied, groups[n][1]))

Basenames(group) == [i \in 1..Len(group) |-> basename(group[i])]

\* variant of lines 435-439 that forgets the similar groups (the second loop
\* dropped); C8 depends on the difference
AllDuplicates_exact_only(exact_groups, near_groups) ==
    UNION {Range(exact_groups[i]) : i \in 1..Len(exact_groups)}

\* lines 435-439
AllDuplicates(exact_groups, near_groups) ==
    UNION {Range(exact_groups[i]) : i \in 1..Len(exact_groups)}
    \cup UNION {Range(near_groups[i]) : i \in 1..Len(near_groups)}

\* line 442
UniqueOf(all_files, exact_groups, near_groups) ==
    SelectSeq(all_files, LAMBDA f : f \notin AllDuplicates(exact_groups, near_groups))

\* variant of lines 484-501 without the filter "if r.is_duplicate" of line
\* 499; C16 depends on the difference
DetailedReport_unfiltered(exact_groups, near_groups, results) ==
    [exact_duplicate_groups |->
         [i \in 1..Len(exact_groups) |-> Basenames(exact_groups[i])],
     similar_groups |->
         [i \in 1..Len(near_groups) |-> Basenames(near_groups[i])],
     similarity_details |->
         [i \in 1..Len(results) |->
             [file1 |-> basename(results[i].file1),
              file2 |-> basename(results[i].file2),
              overall_similarity |-> results[i].overall_similarity,
              is_duplicate |-> results[i].is_duplicate,
              reasons |-> results[i].similarity_reasons]]]

\* lines 484-501
DetailedReport(exact_groups, near_groups, results) ==
    LET duplicates == SelectSeq(results, LAMBDA r : r.is_duplicate)
    IN  [exact_duplicate_groups |->
             [i \in 1..Len(exact_groups) |-> Basenames(exact_groups[i])],
         similar_groups |->
             [i \in 1..Len(near_groups) |-> Basenames(near_groups[i])],
         similarity_details |->
             [i \in 1..Len(duplicates) |->
                 [file1 |-> basename(duplicates[i].file1),
                  file2 |-> basename(duplicates[i].file2),
                  overall_similarity |-> duplicates[i].overall_similarity,
                  is_duplicate |-> duplicates[i].is_duplicate,
                  reasons |-> duplicates[i].similarity_reasons]]]

generate_output(exact_groups, near_groups, results, all_files) ==
    Bind(UniqueOf(all_files, exact_groups, near_groups), LAMBDA unique :
    LET merged1 == CopyAll(EmptyFolder, unique, Len(unique))
        merged2 == CopyRepresentatives(merged1, exact_groups, Len(exact_groups))
        merged3 == CopyRepresentatives(merged2, near_groups, Len(near_groups))
    IN  [exists |-> TRUE,
         unique |-> CopyAll(EmptyFolder, unique, Len(unique)),
         exact_duplicates |->
             [i \in 1..Len(exact_groups) |->
                 CopyAll(EmptyFolder, exact_groups[i], Len(exact_groups[i]))],
         similar_groups |->
             [i \in 1..Len(near_groups) |->
                 CopyAll(EmptyFolder, near_groups[i], Len(near_groups[i]))],
         merged |-> merged3,
         report |-> DetailedReport(exact_groups, near_groups, results)])

\* sum(len(group) - 1 for group in groups)
RECURSIVE Surplus(_, _)
Surplus(groups, n) ==
    IF n = 0 THEN 0 ELSE Surplus(groups, n - 1) + Len(groups[n]) - 1

\* variant of lines 367-368 that counts every member of a group
\* (sum(len(group) for group in groups)); C30 depends on the difference
Summary_whole_groups(all_files, exact_groups, near_groups) ==
    LET total_duplicates == Surplus(exact_groups, Len(exact_groups)) + Len(exact_groups)
        total_similar == Surplus(near_groups, Len(near_groups)) + Len(near_groups)
    IN  [total_files |-> Len(all_files),
         exact_duplicate_groups |-> Len(exact_groups),
         similar_groups |-> Len(near_groups),
         total_exact_duplicates |-> total_duplicates,
         total_similar_files |-> total_similar,
         unique_files |-> Len(all_files) - total_duplicates - total_similar]

\* lines 367-379, without the two timing entries
Summary(all_files, exact_groups, near_groups) ==
    LET total_duplicates == Surplus(exact_groups, Len(exact_groups))
        total_similar == Surplus(near_groups, Len(near_groups))
    IN  [total_files |-> Len(all_files),
         exact_duplicate_groups |-> Len(exact_groups),
         similar_groups |-> Len(near_groups),
         total_exact_duplicates |-> total_duplicates,
         total_similar_files |-> total_similar,
         unique_files |-> Len(all_files) - total_duplicates - total_similar]


(***************************************************************************)
(* process_directory, one action per step of the coordinating thread.      *)
(***************************************************************************)
NoOutput ==
    [exists |-> FALSE, unique |-> EmptyFolder, exact_duplicates |-> << >>,
     similar_groups |-> << >>, merged |-> EmptyFolder, report |-> None]

\* the worker tasks of a run on dir, each named by the files it reads: one
\* extraction per file, one scoring per two files
Tasks(dir) ==
    {t \in SUBSET DOMAIN dir.files : Cardinality(t) \in {1, 2}}

\* what future.result() does: return the task's value, or raise
Returned(value) == [raised |-> FALSE, value |-> value]
Raised == [raised |-> TRUE, value |-> None]

\* a dict without one key
Without(dict, key) == [k \in DOMAIN dict \ {key} |-> dict[k]]

\* executor.submit(extract_file_features, file_path) for every file: the
\* outcome of each task, which depends on nothing the coordinator does
SubmitExtractions(files) ==
    [file_path \in Range(files) |->
        IF {file_path} \in broken THEN Raised
        ELSE Returned(<<file_path, extract_file_features(file_path)>>)]

\* executor.submit(calculate_similarity_pair, pair) for every pair
SubmitScorings(pairs) ==
    [i \in 1..Len(pairs) |->
        IF {pairs[i].file1, pairs[i].file2} \in broken THEN Raised
        ELSE Returned(calculate_similarity_pair(pairs[i].file1, pairs[i].file2,
                          pairs[i].features1, pairs[i].features2,
                          pairs[i].threshold))]

(***************************************************************************)
(* The worker pool: __init__, get_safe_executor and the executor's         *)
(* bookkeeping of its tasks.  A task is named by its index in js_files     *)
(* (extraction) or in file_pairs (scoring).                                *)
(***************************************************************************)
\* min(mp.cpu_count(), 8)
DefaultWorkerCap == 8
\* min(max_workers or 4, 8)
ThreadWorkerDefault == 4
ThreadWorkerCap == 8

\* `x or y` for an Optional[int] x
OrElse(x, y) == IF x = {} \/ x = {0} THEN y ELSE CHOOSE n \in x : TRUE

\* line 277: self.max_workers = max_workers or min(mp.cpu_count(), 8)
init_max_workers(arg, cpus) == OrElse(arg, Min(cpus, DefaultWorkerCap))

\* no pool
NoExecutor ==
    [kind |-> "none", max_workers |-> 0, queued |-> {}, running |-> {},
     finished |-> {}]

\* lines 28-37, followed by executor.submit for the tasks 1..n: a
\* ThreadPoolExecutor when frozen, a ProcessPoolExecutor otherwise (which
\* takes the number of processors for max_workers=None)
get_safe_executor(workers, n) ==
    IF frozen
    THEN [kind |-> "thread",
          max_workers |-> Min(OrElse(workers, ThreadWorkerDefault), ThreadWorkerCap),
          queued |-> 1..n, running |-> {}, finished |-> {}]
    ELSE [kind |-> "process",
          max_workers |-> OrElse(workers, cpu_count),
          queued |-> 1..n, running |-> {}, finished |-> {}]

\* the pool variables of a run whose pool is not modelled
PoolUnused ==
    /\ frozen = FALSE
    /\ cpu_count = 1
    /\ max_workers_arg = {}
    /\ max_workers = init_max_workers({}, 1)
    /\ executor = NoExecutor

Init ==
    /\ input_dir \in {d \in InputDirs : d.unreadable \subseteq DOMAIN d.files}
    /\ similarity_threshold \in Thresholds
    /\ broken \in {{}} \cup {{t} : t \in Tasks(input_dir)}
    /\ input_dir.unreadable # {} => broken = {}
    /\ pc = "start"
    /\ js_files = << >>
    /\ future_to_file = << >>
    /\ features_dict = << >>
    /\ hash_groups = << >>
    /\ exact_duplicate_groups = << >>
    /\ unique_files = << >>
    /\ file_pairs = << >>
    /\ future_to_pair = << >>
    /\ similarity_results = << >>
    /\ similar_groups = << >>
    /\ output_dir = NoOutput
    /\ report = None
    /\ pair_args = None
    /\ pair_result = None
    /\ PoolUnused

\* lines 281-301: create the output directory, walk the input directory and
\* submit one extraction task per file
Enumerate ==
    /\ pc = "start"
    /\ js_files' = walk(input_dir)
    /\ future_to_file' = SubmitExtractions(walk(input_dir))
    /\ output_dir' = [output_dir EXCEPT !.exists = TRUE]
    /\ pc' = "extract"
    /\ UNCHANGED <<input_dir, broken, similarity_threshold, features_dict,
                   hash_groups, exact_duplicate_groups, unique_files, file_pairs,
                   future_to_pair, similarity_results, similar_groups, report,
                   pair_args, pair_result>>
    /\ UNCHANGED pool_vars

\* variant of lines 304-310 without the test "if features:", so that an empty
\* record is stored like any other; C6 depends on the difference
CollectFeatures_keep_empty ==
    /\ pc = "extract"
    /\ \E file_path \in DOMAIN future_to_file :
        /\ ~future_to_file[file_path].raised
        /\ features_dict' =
             Append(features_dict,
                    [file_path |-> future_to_file[file_path].value[1],
                     features |-> future_to_file[file_path].value[2]])
        /\ future_to_file' = Without(future_to_file, file_path)
        /\ pc' = pc
    /\ UNCHANGED <<input_dir, broken, similarity_threshold, js_files, hash_groups,
                   exact_duplicate_groups, unique_files, file_pairs,
                   future_to_pair, similarity_results, similar_groups, output_dir,
                   report, pair_args, pair_result>>
    /\ UNCHANGED pool_vars

\* lines 304-310: as_completed yields the future of any finished task;
\* future.result() returns its value or raises what the task raised
CollectFeatures ==
    /\ pc = "extract"
    /\ \E file_path \in DOMAIN future_to_file :
        \/ /\ future_to_file[file_path].raised
           /\ pc' = "raised"
           /\ UNCHANGED <<future_to_file, features_dict>>
        \/ /\ ~future_to_file[file_path].raised
           /\ features_dict' =
                IF IsEmptyDict(future_to_file[file_path].value[2]) THEN features_dict
                ELSE Append(features_dict,
                            [file_path |-> future_to_file[file_path].value[1],
                             features |-> future_to_file[file_path].value[2]])
           /\ future_to_file' = Without(future_to_file, file_path)
           /\ pc' = pc
    /\ UNCHANGED <<input_dir, broken, similarity_threshold, js_files, hash_groups,
                   exact_duplicate_groups, unique_files, file_pairs,
                   future_to_pair, similarity_results, similar_groups, output_dir,
                   report, pair_args, pair_result>>
    /\ UNCHANGED pool_vars

\* variant of lines 316-343 that does not wait for the loop of lines 304-310
\* to end: grouping starts while extraction futures are pending; C20 depends
\* on the difference
HashDedup_before_fan_in ==
    /\ pc = "extract"
    /\ LET groups == BuildHashGroups(features_dict, Len(features_dict))
           pairs == FilePairs(Representatives(groups), features_dict,
                              similarity_threshold, 1, 2)
       IN  /\ hash_groups' = groups
           /\ exact_duplicate_groups' = LargerGroups(GroupValues(groups))
           /\ unique_files' = Representatives(groups)
           /\ file_pairs' = pairs
           /\ future_to_pair' = SubmitScorings(pairs)
    /\ pc' = "score"
    /\ UNCHANGED <<input_dir, broken, similarity_threshold, js_files,
                   future_to_file, features_dict, similarity_results,
                   similar_groups, output_dir, report, pair_args, pair_result>>
    /\ UNCHANGED pool_vars

\* lines 316-343: group by content hash, take the representatives, build
\* the pairs and submit one scoring task per pair
HashDedup ==
    /\ pc = "extract"
    /\ DOMAIN future_to_file = {}
    /\ LET groups == BuildHashGroups(features_dict, Len(features_dict))
           pairs == FilePairs(Representatives(groups), features_dict,
                              similarity_threshold, 1, 2)
       IN  /\ hash_groups' = groups
           /\ exact_duplicate_groups' = LargerGroups(GroupValues(groups))
           /\ unique_files' = Representatives(groups)
           /\ file_pairs' = pairs
           /\ future_to_pair' = SubmitScorings(pairs)
    /\ pc' = "score"
    /\ UNCHANGED <<input_dir, broken, similarity_threshold, js_files,
                   future_to_file, features_dict, similarity_results,
                   similar_groups, output_dir, report, pair_args, pair_result>>
    /\ UNCHANGED pool_vars

\* lines 346-352
CollectSimilarity ==
    /\ pc = "score"
    /\ \E i \in DOMAIN future_to_pair :
        \/ /\ future_to_pair[i].raised
           /\ pc' = "raised"
           /\ UNCHANGED <<future_to_pair, similarity_results>>
        \/ /\ ~future_to_pair[i].raised
           /\ similarity_results' =
                IF future_to_pair[i].value # None
                THEN Append(similarity_results, future_to_pair[i].value)
                ELSE similarity_results
           /\ future_to_pair' = Without(future_to_pair, i)
           /\ pc' = pc
    /\ UNCHANGED <<input_dir, broken, similarity_threshold, js_files,
                   future_to_file, features_dict, hash_groups,
                   exact_duplicate_groups, unique_files, file_pairs,
                   similar_groups, output_dir, report, pair_args, pair_result>>
    /\ UNCHANGED pool_vars

\* line 356
BuildGroups ==
    /\ pc = "score"
    /\ DOMAIN future_to_pair = {}
    /\ similar_groups' = build_similarity_groups(similarity_results, unique_files)
    /\ pc' = "output"
    /\ UNCHANGED <<input_dir, broken, similarity_threshold, js_files,
                   future_to_file, features_dict, hash_groups,
                   exact_duplicate_groups, unique_files, file_pairs,
                   future_to_pair, similarity_results, output_dir, report,
                   pair_args, pair_result>>
    /\ UNCHANGED pool_vars

\* lines 360-361
GenerateOutput ==
    /\ pc = "output"
    /\ output_dir' = generate_output(exact_duplicate_groups, similar_groups,
                                     similarity_results, js_files)
    /\ pc' = "report"
    /\ UNCHANGED <<input_dir, broken, similarity_threshold, js_files,
                   future_to_file, features_dict, hash_groups,
                   exact_duplicate_groups, unique_files, file_pairs,
                   future_to_pair, similarity_results, similar_groups, report,
                   pair_args, pair_result>>
    /\ UNCHANGED pool_vars

\* lines 367-388
Return ==
    /\ pc = "report"
    /\ report' = Summary(js_files, exact_duplicate_groups, similar_groups)
    /\ pc' = "done"
    /\ UNCHANGED <<input_dir, broken, similarity_threshold, js_files,
                   future_to_file, features_dict, hash_groups,
                   exact_duplicate_groups, unique_files, file_pairs,
                   future_to_pair, similarity_results, similar_groups,
                   output_dir, pair_args, pair_result>>
    /\ UNCHANGED pool_vars

Next ==
    \/ Enumerate
    \/ CollectFeatures
    \/ HashDedup
    \/ CollectSimilarity
    \/ BuildGroups
    \/ GenerateOutput
    \/ Return

Spec == Init /\ [][Next]_vars

(***************************************************************************)
(* One call of calculate_similarity_pair on drawn arguments.               *)
(***************************************************************************)
PairInit ==
    /\ pair_args \in [file1 : {"file1"}, file2 : {"file2"},
                      features1 : FeatureRecords \cup {EmptyDict},
                      features2 : FeatureRecords \cup {EmptyDict},
                      threshold : Thresholds]
    /\ pair_result = None
    /\ pc = "pair"
    /\ input_dir = [exists |-> FALSE, files |-> << >>, unreadable |-> {}]
    /\ broken = {}
    /\ similarity_threshold = pair_args.threshold
    /\ js_files = << >>
    /\ future_to_file = << >>
    /\ features_dict = << >>
    /\ hash_groups = << >>
    /\ exact_duplicate_groups = << >>
    /\ unique_files = << >>
    /\ file_pairs = << >>
    /\ future_to_pair = << >>
    /\ similarity_results = << >>
    /\ similar_groups = << >>
    /\ output_dir = NoOutput
    /\ report = None
    /\ PoolUnused

ScorePair ==
    /\ pc = "pair"
    /\ pair_result' = calculate_similarity_pair(pair_args.file1, pair_args.file2,
                          pair_args.features1, pair_args.features2,
                          pair_args.threshold)
    /\ pc' = "paired"
    /\ UNCHANGED <<pair_args, input_dir, broken, similarity_threshold, js_files,
                   future_to_file, features_dict, hash_groups,
                   exact_duplicate_groups, unique_files, file_pairs,
                   future_to_pair, similarity_results, similar_groups,
                   output_dir, report>>
    /\ UNCHANGED pool_vars

PairNext == ScorePair

SpecPair == PairInit /\ [][PairNext]_vars

(***************************************************************************)
(* One call of _build_similarity_groups on drawn arguments: the candidates *)
(* are the paths of AllPaths, the results any sequence of up to MaxResults *)
(* results between two of them.  Of a result the cluster builder reads     *)
(* file1, file2 and is_duplicate only.                                     *)
(***************************************************************************)
ClusterCandidates == AllPaths

\* the longest list of results of a call
MaxResults == MaxFiles - 1

\* duplicate results in both orientations, other results in one
ClusterResults ==
    {[file1 |-> AllPaths[i], file2 |-> AllPaths[j], is_duplicate |-> d] :
        i \in 1..Len(AllPaths), j \in 1..Len(AllPaths), d \in BOOLEAN}
    \ {r \in [file1 : Range(AllPaths), file2 : Range(AllPaths),
               is_duplicate : BOOLEAN] :
           \/ r.file1 = r.file2
           \/ ~r.is_duplicate /\ \E i, j \in 1..Len(AllPaths) :
                  i > j /\ r.file1 = AllPaths[i] /\ r.file2 = AllPaths[j]}

ClusterInit ==
    /\ unique_files = ClusterCandidates
    /\ similarity_results \in UNION {[1..n -> ClusterResults] : n \in 0..MaxResults}
    /\ similar_groups = << >>
    /\ pc = "cluster"
    /\ input_dir = [exists |-> FALSE, files |-> << >>, unreadable |-> {}]
    /\ broken = {}
    /\ similarity_threshold = One
    /\ js_files = << >>
    /\ future_to_file = << >>
    /\ features_dict = << >>
    /\ hash_groups = << >>
    /\ exact_duplicate_groups = << >>
    /\ file_pairs = << >>
    /\ future_to_pair = << >>
    /\ output_dir = NoOutput
    /\ report = None
    /\ pair_args = None
    /\ pair_result = None
    /\ PoolUnused

BuildClusters ==
    /\ pc = "cluster"
    /\ similar_groups' = build_similarity_groups(similarity_results, unique_files)
    /\ pc' = "clustered"
    /\ UNCHANGED <<input_dir, broken, similarity_threshold, js_files,
                   future_to_file, features_dict, hash_groups,
                   exact_duplicate_groups, unique_files, file_pairs,
                   future_to_pair, similarity_results, output_dir, report,
                   pair_args, pair_result>>
    /\ UNCHANGED pool_vars

ClusterNext == BuildClusters

SpecCluster == ClusterInit /\ [][ClusterNext]_vars

(***************************************************************************)
(* process_directory with its worker pool: a submitted task is queued, is  *)
(* started by the pool when a worker is free, finishes, and its future is  *)
(* then yielded by as_completed.  What a task returns depends on its       *)
(* argument only, so future_to_file and future_to_pair hold the outcomes   *)
(* from the submission on; a worker's step changes the executor's          *)
(* bookkeeping and nothing else.  The run is followed up to the end of     *)
(* clustering, on readable corpora and without failing tasks.              *)
(***************************************************************************)
CpuCounts == {2, 16}
WorkerArgs == {{}, {1}, {9}}

\* the first three files of Disk1: two exact copies and a near copy
DiskCopies ==
    [p \in {<<"in", "a.js">>, <<"in", "b.js">>, <<"in", "c.js">>} |-> Disk1[p]]

\* the readable directories with some of the files of DiskCopies or of Disk3
PoolDirs ==
    UNION {
        {[exists |-> TRUE, files |-> [p \in present |-> disk[p]], unreadable |-> {}] :
            present \in SUBSET DOMAIN disk} : disk \in {DiskCopies, Disk3}}

PoolInit ==
    /\ input_dir \in PoolDirs
    /\ similarity_threshold \in Thresholds
    /\ broken = {}
    /\ frozen \in BOOLEAN
    /\ cpu_count \in CpuCounts
    /\ max_workers_arg \in WorkerArgs
    /\ max_workers = init_max_workers(max_workers_arg, cpu_count)
    /\ executor = NoExecutor
    /\ pc = "start"
    /\ js_files = << >>
    /\ future_to_file = << >>
    /\ features_dict = << >>
    /\ hash_groups = << >>
    /\ exact_duplicate_groups = << >>
    /\ unique_files = << >>
    /\ file_pairs = << >>
    /\ future_to_pair = << >>
    /\ similarity_results = << >>
    /\ similar_groups = << >>
    /\ output_dir = NoOutput
    /\ report = None
    /\ pair_args = None
    /\ pair_result = None

\* lines 281-301, with the pool of line 299
PoolEnumerate ==
    /\ pc = "start"
    /\ js_files' = walk(input_dir)
    /\ future_to_file' = SubmitExtractions(walk(input_dir))
    /\ executor' = get_safe_executor({max_workers}, Len(walk(input_dir)))
    /\ output_dir' = [output_dir EXCEPT !.exists = TRUE]
    /\ pc' = "extract"
    /\ UNCHANGED <<input_dir, broken, similarity_threshold, features_dict,
                   hash_groups, exact_duplicate_groups, unique_files, file_pairs,
                   future_to_pair, similarity_results, similar_groups, report,
                   pair_args, pair_result, frozen, cpu_count, max_workers_arg,
                   max_workers>>

\* variant of the pool that starts a queued task whether or not a worker is
\* free; C22 depends on the difference
StartTask_unbounded ==
    /\ pc \in {"extract", "score"}
    /\ \E task \in executor.queued :
        executor' = [executor EXCEPT !.queued = @ \ {task},
                                     !.running = @ \cup {task}]
    /\ UNCHANGED <<pipeline_vars, pair_args, pair_result, frozen, cpu_count,
                   max_workers_arg, max_workers>>

\* the pool gives a queued task to a free worker: the worker begins
\* extract_file_features (lines 135-143) or calculate_similarity_pair
\* (lines 146-215)
StartTask ==
    /\ pc \in {"extract", "score"}
    /\ Cardinality(executor.running) < executor.max_workers
    /\ \E task \in executor.queued :
        executor' = [executor EXCEPT !.queued = @ \ {task},
                                     !.running = @ \cup {task}]
    /\ UNCHANGED <<pipeline_vars, pair_args, pair_result, frozen, cpu_count,
                   max_workers_arg, max_workers>>

\* variant of extract_file_features that stores its features in features_dict
\* itself instead of returning them to the coordinator; C21 depends on the
\* difference
FinishTask_writes_features ==
    /\ pc \in {"extract", "score"}
    /\ \E task \in executor.running :
        /\ executor' = [executor EXCEPT !.running = @ \ {task},
                                        !.finished = @ \cup {task}]
        /\ features_dict' =
             IF pc = "extract" /\ ~IsEmptyDict(extract_file_features(js_files[task]))
             THEN Append(features_dict,
                         [file_path |-> js_files[task],
                          features |-> extract_file_features(js_files[task])])
             ELSE features_dict
    /\ UNCHANGED <<input_dir, broken, similarity_threshold, pc, js_files,
                   future_to_file, hash_groups, exact_duplicate_groups,
                   unique_files, file_pairs, future_to_pair, similarity_results,
                   similar_groups, output_dir, report, pair_args, pair_result,
                   frozen, cpu_count, max_workers_arg, max_workers>>

\* a worker returns from its task: the value goes into the task's future
FinishTask ==
    /\ pc \in {"extract", "score"}
    /\ \E task \in executor.running :
        executor' = [executor EXCEPT !.running = @ \ {task},
                                     !.finished = @ \cup {task}]
    /\ UNCHANGED <<pipeline_vars, pair_args, pair_result, frozen, cpu_count,
                   max_workers_arg, max_workers>>

\* lines 304-310: as_completed yields the future of a finished task
PoolCollectFeatures ==
    /\ pc = "extract"
    /\ \E task \in executor.finished :
        LET file_path == js_files[task]
        IN  /\ file_path \in DOMAIN future_to_file
            /\ \/ /\ future_to_file[file_path].raised
                  /\ pc' = "raised"
                  /\ UNCHANGED <<future_to_file, features_dict>>
               \/ /\ ~future_to_file[file_path].raised
                  /\ features_dict' =
                       IF IsEmptyDict(future_to_file[file_path].value[2])
                       THEN features_dict
                       ELSE Append(features_dict,
                                   [file_path |-> future_to_file[file_path].value[1],
                                    features |-> future_to_file[file_path].value[2]])
                  /\ future_to_file' = Without(future_to_file, file_path)
                  /\ pc' = pc
    /\ UNCHANGED <<input_dir, broken, similarity_threshold, js_files, hash_groups,
                   exact_duplicate_groups, unique_files, file_pairs,
                   future_to_pair, similarity_results, similar_groups, output_dir,
                   report, pair_args, pair_result, pool_vars>>

\* lines 316-343, with the pool of line 341
PoolHashDedup ==
    /\ pc = "extract"
    /\ DOMAIN future_to_file = {}
    /\ LET groups == BuildHashGroups(features_dict, Len(features_dict))
           pairs == FilePairs(Representatives(groups), features_dict,
                              similarity_threshold, 1, 2)
       IN  /\ hash_groups' = groups
           /\ exact_duplicate_groups' = LargerGroups(GroupValues(groups))
           /\ unique_files' = Representatives(groups)
           /\ file_pairs' = pairs
           /\ future_to_pair' = SubmitScorings(pairs)
           /\ executor' = get_safe_executor({max_workers}, Len(pairs))
    /\ pc' = "score"
    /\ UNCHANGED <<input_dir, broken, similarity_threshold, js_files,
                   future_to_file, features_dict, similarity_results,
                   similar_groups, output_dir, report, pair_args, pair_result,
                   frozen, cpu_count, max_workers_arg, max_workers>>

\* variant of lines 346-352 in which a result that is not duplicate is lost
\* when the pool is a thread pool; C23 depends on the difference
PoolCollectSimilarity_thread_loses ==
    /\ pc = "score"
    /\ \E i \in executor.finished \cap DOMAIN future_to_pair :
        /\ ~future_to_pair[i].raised
        /\ similarity_results' =
             IF future_to_pair[i].value = None THEN similarity_results
             ELSE IF executor.kind = "thread" /\ ~future_to_pair[i].value.is_duplicate
                  THEN similarity_results
             ELSE Append(similarity_results, future_to_pair[i].value)
        /\ future_to_pair' = Without(future_to_pair, i)
        /\ pc' = pc
    /\ UNCHANGED <<input_dir, broken, similarity_threshold, js_files,
                   future_to_file, features_dict, hash_groups,
                   exact_duplicate_groups, unique_files, file_pairs,
                   similar_groups, output_dir, report, pair_args, pair_result,
                   pool_vars>>

\* lines 346-352
PoolCollectSimilarity ==
    /\ pc = "score"
    /\ \E i \in executor.finished \cap DOMAIN future_to_pair :
        \/ /\ future_to_pair[i].raised
           /\ pc' = "raised"
           /\ UNCHANGED <<future_to_pair, similarity_results>>
        \/ /\ ~future_to_pair[i].raised
           /\ similarity_results' =
                IF future_to_pair[i].value # None
                THEN Append(similarity_results, future_to_pair[i].value)
                ELSE similarity_results
           /\ future_to_pair' = Without(future_to_pair, i)
           /\ pc' = pc
    /\ UNCHANGED <<input_dir, broken, similarity_threshold, js_files,
                   future_to_file, features_dict, hash_groups,
                   exact_duplicate_groups, unique_files, file_pairs,
                   similar_groups, output_dir, report, pair_args, pair_result,
                   pool_vars>>

\* line 356, after the pool of line 341 is shut down
PoolBuildGroups ==
    /\ pc = "score"
    /\ DOMAIN future_to_pair = {}
    /\ similar_groups' = build_similarity_groups(similarity_results, unique_files)
    /\ executor' = NoExecutor
    /\ pc' = "output"
    /\ UNCHANGED <<input_dir, broken, similarity_threshold, js_files,
                   future_to_file, features_dict, hash_groups,
                   exact_duplicate_groups, unique_files, file_pairs,
                   future_to_pair, similarity_results, output_dir, report,
                   pair_args, pair_result, frozen, cpu_count, max_workers_arg,
                   max_workers>>

PoolNext ==
    \/ PoolEnumerate
    \/ StartTask
    \/ FinishTask
    \/ PoolCollectFeatures
    \/ PoolHashDedup
    \/ PoolCollectSimilarity
    \/ PoolBuildGroups

SpecPool == PoolInit /\ [][PoolNext]_vars

(***************************************************************************)
(* The pipeline run together with the single calls of the scorer: the     *)
(* specification for statements about both.                                *)
(***************************************************************************)
SpecExclusion == (Init \/ PairInit) /\ [][Next \/ PairNext]_vars

(***************************************************************************)
(* Vocabulary of the properties.                                           *)
(***************************************************************************)
\* process_directory has returned its report
Returned_report == pc = "done"

\* the discovered documents whose features were extracted
Extracted == {features_dict[i].file_path : i \in 1..Len(features_dict)}

\* the features stored in features_dict for a document
Stored(f) ==
    features_dict[CHOOSE i \in 1..Len(features_dict) :
                      features_dict[i].file_path = f].features

\* the discovered documents whose extraction gives the empty record
EmptyRecordFiles ==
    {f \in Range(js_files) : extract_file_features(f) = EmptyDict}

\* the groups of a list that have f as a member
GroupsWith(groups, f) == {i \in 1..Len(groups) : f \in Range(groups[i])}

\* the documents _generate_output selects for unique/ (line 442)
SelectedUnique ==
    Range(UniqueOf(js_files, exact_duplicate_groups, similar_groups))

\* a directory holds a copy of document f
Holds(folder, f) == \E n \in DOMAIN folder : folder[n] = f

\* groups compared as a set of sets of documents
AsSets(groups) == {Range(groups[i]) : i \in 1..Len(groups)}

\* no two discovered documents share a base name
DistinctBasenames ==
    \A f, g \in Range(js_files) : basename(f) = basename(g) => f = g

(***************************************************************************)
(* C1  Partition coverage.                                                 *)
(***************************************************************************)
\* the number of places (unique/, exact groups, similar groups) f is put in
Places(f) ==
    (IF f \in SelectedUnique THEN 1 ELSE 0)
    + Cardinality(GroupsWith(exact_duplicate_groups, f))
    + Cardinality(GroupsWith(similar_groups, f))

SubmissionOrderFeatures ==
    LET files == walk(input_dir)
        items == [i \in 1..Len(files) |->
                     [file_path |-> files[i],
                      features |-> extract_file_features(files[i])]]
    IN  SelectSeq(items, LAMBDA item : ~IsEmptyDict(item.features))

SubmissionOrderHashGroups ==
    BuildHashGroups(SubmissionOrderFeatures, Len(SubmissionOrderFeatures))

\* the exact groups of that run
SubmissionOrderExact == LargerGroups(GroupValues(SubmissionOrderHashGroups))

\* the similar groups of that run, the scoring futures also yielded in the
\* order of submission
SubmissionOrderSimilar ==
    LET files == Representatives(SubmissionOrderHashGroups)
        pairs == FilePairs(files, SubmissionOrderFeatures,
                           similarity_threshold, 1, 2)
        values == [i \in 1..Len(pairs) |->
                      calculate_similarity_pair(pairs[i].file1, pairs[i].file2,
                          pairs[i].features1, pairs[i].features2,
                          pairs[i].threshold)]
    IN  build_similarity_groups(SelectSeq(values, LAMBDA r : r # None), files)

\* C2: for a fixed corpus and threshold every completion order of the
\* extraction and scoring tasks gives the same set of exact groups and the
\* same set of similar groups, so every run that returns has the groups of
\* the run that completes its tasks in the order of submission.
C2_SchedulingDeterminism ==
    Returned_report =>
        /\ AsSets(exact_duplicate_groups) = AsSets(SubmissionOrderExact)
        /\ AsSets(similar_groups) = AsSets(SubmissionOrderSimilar)

(***************************************************************************)
(* C3  Worker-failure isolation.                                           *)
(***************************************************************************)
\* C3: a task that raises is excluded alone and the exception is never
\* propagated to the caller of process_directory.
C3_WorkerFailureIsolation == broken # {} => pc # "raised"

(***************************************************************************)
(* C4  A missing input directory is fatal.                                 *)
(***************************************************************************)
\* C4: on an input directory that does not exist, process_directory returns
\* no report and no stage after the enumeration produces output.
C4_MissingInputFatal ==
    ~input_dir.exists =>
        /\ pc # "done"
        /\ report = None
        /\ output_dir.report = None

(***************************************************************************)
(* C5  A document that could not be read is counted nowhere.               *)
(***************************************************************************)
\* C5: when process_directory has returned, a document whose extraction gave
\* the empty record is in neither unique/ nor merged/, is in no group, and
\* the returned unique_files counts only documents that were extracted.
C5_UnreadableNotCounted ==
    Returned_report =>
        /\ \A f \in EmptyRecordFiles :
            /\ ~Holds(output_dir.unique, f)
            /\ ~Holds(output_dir.merged, f)
            /\ GroupsWith(exact_duplicate_groups, f) = {}
            /\ GroupsWith(similar_groups, f) = {}
        /\ report.unique_files =
               Cardinality(Extracted)
               - Surplus(exact_duplicate_groups, Len(exact_duplicate_groups))
               - Surplus(similar_groups, Len(similar_groups))

(***************************************************************************)
(* C6  The empty feature record is excluded from every comparison.         *)
(***************************************************************************)
\* the documents a list of scoring arguments or results has as endpoints
Endpoints(pairs) ==
    {pairs[i].file1 : i \in 1..Len(pairs)} \cup {pairs[i].file2 : i \in 1..Len(pairs)}

\* C6: a document whose extraction gives the empty record is never stored in
\* features_dict, never in a hash bucket, never a candidate, never an endpoint
\* of a scoring pair or of a result, never in an exact or a similar group;
\* and a call of calculate_similarity_pair with an empty record returns None.
C6_EmptyRecordExcluded ==
    /\ \A f \in EmptyRecordFiles :
        /\ f \notin Extracted
        /\ \A i \in 1..Len(hash_groups) : f \notin Range(hash_groups[i].files)
        /\ f \notin Range(unique_files)
        /\ f \notin Endpoints(file_pairs)
        /\ f \notin Endpoints(similarity_results)
        /\ GroupsWith(exact_duplicate_groups, f) = {}
        /\ GroupsWith(similar_groups, f) = {}
    /\ \A i \in 1..Len(features_dict) : features_dict[i].features # EmptyDict
    /\ (pc = "paired" /\ (pair_args.features1 = EmptyDict
                          \/ pair_args.features2 = EmptyDict))
           => pair_result = None

\* a finished run on a corpus with a document of the empty record and two
\* documents that were scored and grouped
C6_Witness ==
    /\ Returned_report
    /\ EmptyRecordFiles # {}
    /\ Len(similarity_results) > 0
    /\ Len(exact_duplicate_groups) + Len(similar_groups) > 0

(***************************************************************************)
(* C7  merged/ is the deduplicated corpus.                                 *)
(***************************************************************************)
\* the members of a group that merged/ holds
MergedOf(group) == {f \in Range(group) : Holds(output_dir.merged, f)}

\* C7: when _generate_output has run on a corpus of distinct base names in
\* which every document was read, merged/ holds every unique document,
\* exactly one member of every exact group, exactly one member of every
\* similar group and nothing else.
C7_MergedDeduplicated ==
    (Returned_report /\ DistinctBasenames /\ EmptyRecordFiles = {}) =>
        /\ \A f \in SelectedUnique : Holds(output_dir.merged, f)
        /\ \A i \in 1..Len(exact_duplicate_groups) :
               Cardinality(MergedOf(exact_duplicate_groups[i])) = 1
        /\ \A i \in 1..Len(similar_groups) :
               Cardinality(MergedOf(similar_groups[i])) = 1
        /\ \A n \in DOMAIN output_dir.merged :
               \/ output_dir.merged[n] \in SelectedUnique
               \/ GroupsWith(exact_duplicate_groups, output_dir.merged[n]) # {}
               \/ GroupsWith(similar_groups, output_dir.merged[n]) # {}

(***************************************************************************)
(* C8  Membership of unique/.                                              *)
(***************************************************************************)
\* C8: when the discovered documents have distinct base names and every copy
\* succeeds, unique/ holds a document if and only if it is a member of no
\* exact group and of no similar group.
C8_UniqueMembership ==
    (Returned_report /\ DistinctBasenames /\ input_dir.unreadable = {}) =>
        \A f \in Range(js_files) :
            Holds(output_dir.unique, f)
            <=> /\ GroupsWith(exact_duplicate_groups, f) = {}
                /\ GroupsWith(similar_groups, f) = {}

\* a finished run on distinct base names, all copied, with a document in
\* unique/ and the two members of a similar group outside it
C8_Witness ==
    /\ Returned_report /\ DistinctBasenames /\ input_dir.unreadable = {}
    /\ \E f, g, h \in Range(js_files) :
        /\ Holds(output_dir.unique, f)
        /\ g # h
        /\ GroupsWith(similar_groups, g) # {}
        /\ GroupsWith(similar_groups, g) = GroupsWith(similar_groups, h)
        /\ ~Holds(output_dir.unique, g)
        /\ ~Holds(output_dir.unique, h)

(***************************************************************************)
(* C9  Symmetry of scoring.                                                *)
(***************************************************************************)
\* calculate_similarity_pair on the two records of the call, exchanged
SwappedResult ==
    calculate_similarity_pair(pair_args.file2, pair_args.file1,
                              pair_args.features2, pair_args.features1,
                              pair_args.threshold)

\* C9: for every two feature records and every threshold, the call on (A, B)
\* and the call on (B, A) both return None, or both return a result with the
\* same overall_similarity and the same is_duplicate.
C9_ScoringSymmetry ==
    pc = "paired" =>
        \/ pair_result = None /\ SwappedResult = None
        \/ /\ pair_result # None
           /\ SwappedResult # None
           /\ pair_result.overall_similarity = SwappedResult.overall_similarity
           /\ pair_result.is_duplicate = SwappedResult.is_duplicate

(***************************************************************************)
(* C10  Exact implies near.                                                *)
(***************************************************************************)
\* the call was made on two non-empty records of one content digest
SameDigest ==
    /\ pc = "paired"
    /\ pair_args.features1 # EmptyDict
    /\ pair_args.features2 # EmptyDict
    /\ pair_args.features1.content_hash = pair_args.features2.content_hash

\* C10: on two non-empty records with the same content digest and any
\* threshold, calculate_similarity_pair returns a result with overall
\* similarity 1.0 and is_duplicate true, whatever the sizes, names and counts.
C10_ExactImpliesNear ==
    SameDigest =>
        /\ pair_result # None
        /\ pair_result.overall_similarity = NumOne
        /\ pair_result.is_duplicate

\* a call on two records of one digest whose sizes differ by more than the
\* factor of the size pre-filter and whose names and counts differ
C10_Witness ==
    /\ SameDigest
    /\ size_skipped(pair_args.features1, pair_args.features2)
    /\ pair_args.features1.functions # pair_args.features2.functions
    /\ pair_args.features1.structure_counts # pair_args.features2.structure_counts
    /\ pair_args.threshold = One
    /\ pair_result # None

(***************************************************************************)
(* C11  Threshold monotonicity.                                            *)
(***************************************************************************)
\* a value returned by calculate_similarity_pair classifies the pair duplicate
ClassifiedDuplicate(result) == result # None /\ result.is_duplicate

\* the call of the state, made with another threshold
ResultAt(threshold) ==
    calculate_similarity_pair(pair_args.file1, pair_args.file2,
                              pair_args.features1, pair_args.features2,
                              threshold)

\* C11: a pair classified duplicate at a threshold is classified duplicate
\* at every lower threshold, so raising the threshold never adds a duplicate.
C11_ThresholdMonotone ==
    (pc = "paired" /\ ClassifiedDuplicate(pair_result)) =>
        \A t1 \in Thresholds :
            RLeq(t1, pair_args.threshold) => ClassifiedDuplicate(ResultAt(t1))

\* a call that scored two records of different digests as duplicate at the
\* middle threshold, and that is not duplicate at the highest one
C11_Witness ==
    /\ pc = "paired"
    /\ ClassifiedDuplicate(pair_result)
    /\ pair_args.features1.content_hash # pair_args.features2.content_hash
    /\ pair_args.threshold = Rat(4, 5)
    /\ ~ClassifiedDuplicate(ResultAt(One))

(***************************************************************************)
(* C12  The size pre-filter in the report.                                 *)
(***************************************************************************)
\* len(content) of a document whose features were extracted
FileSize(f) == Stored(f).file_size

\* min(size1, size2) / max(size1, size2) < 0.5
RatioBelowHalf(f, g) ==
    2 * Min(FileSize(f), FileSize(g)) < Max(FileSize(f), FileSize(g))

\* C12: at every point of a run of process_directory, no entry of
\* similarity_results relates two documents whose size ratio is below 0.5.
C12_SizeFilterInReport ==
    \A i \in 1..Len(similarity_results) :
        ~RatioBelowHalf(similarity_results[i].file1, similarity_results[i].file2)

\* a finished run in which a candidate pair had a size ratio below 0.5, other
\* pairs were scored duplicate, and the two documents of the skipped pair
\* ended in one similar group
C12_Witness ==
    /\ Returned_report
    /\ \E i \in 1..Len(file_pairs) :
        /\ RatioBelowHalf(file_pairs[i].file1, file_pairs[i].file2)
        /\ GroupsWith(similar_groups, file_pairs[i].file1) # {}
        /\ GroupsWith(similar_groups, file_pairs[i].file1)
               = GroupsWith(similar_groups, file_pairs[i].file2)
    /\ Len(similarity_results) >= 2

(***************************************************************************)
(* C13  The size pre-filter in the scorer.                                 *)
(***************************************************************************)
\* the call was made on two non-empty records whose size ratio is below 0.5
SizesApart ==
    /\ pc = "paired"
    /\ pair_args.features1 # EmptyDict
    /\ pair_args.features2 # EmptyDict
    /\ 2 * Min(pair_args.features1.file_size, pair_args.features2.file_size)
           < Max(pair_args.features1.file_size, pair_args.features2.file_size)

CandidatesBuilt == pc \in {"score", "output", "report", "done"}

\* the position of a path in file-path order
PathIndex(path) == CHOOSE i \in 1..Len(AllPaths) : AllPaths[i] = path

\* the member of a set of paths that is first in file-path order
FirstInPathOrder(paths) ==
    CHOOSE p \in paths : \A q \in paths : PathIndex(p) <= PathIndex(q)

\* C14: once the hash buckets are built, the candidate taken from every
\* bucket, and the member of every exact group that is copied to merged/
\* (group[0]), is the member that is first in file-path order.
C14_RepresentativeFirstInPathOrder ==
    CandidatesBuilt =>
        /\ \A i \in 1..Len(hash_groups) :
               unique_files[i] = FirstInPathOrder(Range(hash_groups[i].files))
        /\ \A i \in 1..Len(exact_duplicate_groups) :
               exact_duplicate_groups[i][1]
                   = FirstInPathOrder(Range(exact_duplicate_groups[i]))

(***************************************************************************)
(* C15  One candidate per hash bucket.                                     *)
(***************************************************************************)
\* the content digest of a document whose features were extracted
Digest(f) == Stored(f).content_hash

\* C15: once the candidate list is built it holds exactly one document of
\* every hash bucket and nothing else, any two candidates have different
\* digests, and no scoring pair has two documents of the same digest.
C15_OneCandidatePerBucket ==
    CandidatesBuilt =>
        /\ Len(unique_files) = Len(hash_groups)
        /\ \A f \in Extracted :
               Cardinality({i \in 1..Len(unique_files) :
                               Digest(unique_files[i]) = Digest(f)}) = 1
        /\ \A i \in 1..Len(unique_files) : unique_files[i] \in Extracted
        /\ \A i, j \in 1..Len(unique_files) :
               i # j => Digest(unique_files[i]) # Digest(unique_files[j])
        /\ \A i \in 1..Len(file_pairs) :
               /\ Digest(file_pairs[i].file1) # Digest(file_pairs[i].file2)
               /\ file_pairs[i].features1.content_hash
                      # file_pairs[i].features2.content_hash

\* the candidate list of a run with a bucket of two documents and a second
\* bucket, so that a scoring pair was submitted
C15_Witness ==
    /\ pc = "score"
    /\ \E i \in 1..Len(hash_groups) : Len(hash_groups[i].files) = 2
    /\ Len(unique_files) = 2
    /\ Len(file_pairs) = 1

(***************************************************************************)
(* C16  similarity_details lists the duplicate pairs.                      *)
(***************************************************************************)
\* what the scoring task of the i-th candidate pair returns
PairScore(i) ==
    calculate_similarity_pair(file_pairs[i].file1, file_pairs[i].file2,
                              file_pairs[i].features1, file_pairs[i].features2,
                              file_pairs[i].threshold)

\* what the scoring tasks return, by candidate pair
PairScores == [i \in 1..Len(file_pairs) |-> PairScore(i)]

\* C16: in the report written by a run that returned, similarity_details has as many entries as
\* there are candidate pairs scored duplicate, an entry with the names and
\* the score of every such pair, and every entry has is_duplicate true and
\* an overall similarity of at least the threshold.
C16_DetailsAreDuplicates ==
    Returned_report =>
        Bind(PairScores, LAMBDA scores :
        LET details == output_dir.report.similarity_details
            DuplicatePairs == {i \in 1..Len(scores) : ClassifiedDuplicate(scores[i])}
        IN  /\ Len(details) = Cardinality(DuplicatePairs)
            /\ \A i \in DuplicatePairs :
                   \E k \in 1..Len(details) :
                       /\ details[k].file1 = basename(file_pairs[i].file1)
                       /\ details[k].file2 = basename(file_pairs[i].file2)
                       /\ details[k].overall_similarity
                              = scores[i].overall_similarity
            /\ \A k \in 1..Len(details) :
                   /\ details[k].is_duplicate
                   /\ NumGeq(details[k].overall_similarity, similarity_threshold))

\* a written report with an entry for a duplicate pair, after a run that also
\* collected a result that is not duplicate
C16_Witness ==
    /\ Returned_report
    /\ Len(output_dir.report.similarity_details) >= 1
    /\ \E i \in 1..Len(similarity_results) : ~similarity_results[i].is_duplicate

(***************************************************************************)
(* C17  Completion.                                                        *)
(***************************************************************************)
\* process_directory takes no further step: it has returned, or an exception
\* has left it.  In every other state a step is possible (a future to
\* collect, or the next stage), and every step collects a future or advances
\* the stage, so under fair scheduling every run reaches such a state.
Stopped == pc \in {"done", "raised"}

\* C17: a run of process_directory on an existing input directory stops only
\* by returning its report, with every submitted extraction and scoring
\* task collected, whatever failures the single tasks have.
C17_Completion ==
    (input_dir.exists /\ Stopped) =>
        /\ pc = "done"
        /\ report # None
        /\ DOMAIN future_to_file = {}
        /\ DOMAIN future_to_pair = {}

(***************************************************************************)
(* C18  The cluster builder computes connected components.                 *)
(***************************************************************************)
\* the pairs of candidates joined by a result with is_duplicate true
DuplicateEdges ==
    {{similarity_results[i].file1, similarity_results[i].file2} :
        i \in {k \in 1..Len(similarity_results) : similarity_results[k].is_duplicate}}

\* a set of candidates with the candidates one duplicate result away
Neighbours(S) ==
    S \cup {y \in Range(unique_files) : \E x \in S : {x, y} \in DuplicateEdges}

\* the candidates joined to a member of S by a chain of duplicate results
RECURSIVE Reach(_)
Reach(S) == IF Neighbours(S) = S THEN S ELSE Reach(Neighbours(S))

\* two candidates are members of one returned group
Grouped(x, y) ==
    \E i \in 1..Len(similar_groups) : {x, y} \subseteq Range(similar_groups[i])

\* C18: after _build_similarity_groups two candidates are in one returned
\* group if and only if a chain of duplicate results joins them; the groups
\* are pairwise disjoint, each has at least two members, and a candidate no
\* duplicate result touches is in no group.
C18_ConnectedComponents ==
    pc = "clustered" =>
        /\ \A x, y \in Range(unique_files) :
               x # y => (Grouped(x, y) <=> y \in Reach({x}))
        /\ \A i, j \in 1..Len(similar_groups) :
               i # j => Range(similar_groups[i]) \cap Range(similar_groups[j]) = {}
        /\ \A i \in 1..Len(similar_groups) :
               /\ Len(similar_groups[i]) >= 2
               /\ Cardinality(Range(similar_groups[i])) = Len(similar_groups[i])
        /\ \A x \in Range(unique_files) :
               Reach({x}) = {x} => GroupsWith(similar_groups, x) = {}

\* a call in which two candidates are grouped through a third, no duplicate
\* result being between the two, and a fourth candidate is in no group
C18_Witness ==
    /\ pc = "clustered"
    /\ \E x, y \in Range(unique_files) :
        /\ x # y
        /\ Grouped(x, y)
        /\ {x, y} \notin DuplicateEdges
    /\ \E z \in Range(unique_files) : GroupsWith(similar_groups, z) = {}

(***************************************************************************)
(* C19  The merge does not depend on the order of the results.             *)
(***************************************************************************)
\* the orders of n results
Orders(n) == {f \in [1..n -> 1..n] : \A i, j \in 1..n : f[i] = f[j] => i = j}

\* the results in another order
Reordered(results, f) == [i \in 1..Len(results) |-> results[f[i]]]

\* the results with the i-th processed a second time, right away
Repeated(results, i) ==
    SubSeq(results, 1, i) \o <<results[i]>> \o SubSeq(results, i + 1, Len(results))

\* the groups _build_similarity_groups returns for results, as sets
GroupSets(results) == AsSets(build_similarity_groups(results, unique_files))

\* C19: for the results and candidates of a call, _build_similarity_groups
\* returns the same set of groups for the results in every other order, and
\* when a duplicate result is processed a second time, right away or at the
\* end.
C19_MergeOrderIndependent ==
    pc = "clustered" =>
        /\ \A f \in Orders(Len(similarity_results)) :
               GroupSets(Reordered(similarity_results, f)) = AsSets(similar_groups)
        /\ \A i \in 1..Len(similarity_results) :
               similarity_results[i].is_duplicate =>
                   /\ GroupSets(Repeated(similarity_results, i)) = AsSets(similar_groups)
                   /\ GroupSets(Append(similarity_results, similarity_results[i]))
                          = AsSets(similar_groups)

\* a call with two duplicate results that join three candidates, the two
\* results with the same first document
C19_Witness ==
    /\ pc = "clustered"
    /\ Len(similarity_results) = 2
    /\ \A i \in 1..2 : similarity_results[i].is_duplicate
    /\ similarity_results[1].file1 = similarity_results[2].file1
    /\ similarity_results[1].file2 # similarity_results[2].file2
    /\ \E i \in 1..Len(similar_groups) : Len(similar_groups[i]) = 3

(***************************************************************************)
(* C20  The stages of process_directory run strictly one after the other.  *)
(***************************************************************************)
\* exact-hash grouping has started
GroupingStarted ==
    \/ pc \in {"score", "output", "report", "done"}
    \/ hash_groups # << >>
    \/ exact_duplicate_groups # << >>
    \/ unique_files # << >>

\* a scoring task has been submitted
ScoringSubmitted ==
    \/ file_pairs # << >>
    \/ DOMAIN future_to_pair # {}
    \/ similarity_results # << >>

\* clustering has started
ClusteringStarted ==
    \/ pc \in {"output", "report", "done"}
    \/ similar_groups # << >>

\* output generation has started
OutputStarted ==
    \/ pc \in {"report", "done"}
    \/ output_dir.report # None
    \/ report # None

\* the result of every extraction task has been merged into features_dict
ExtractionMerged ==
    /\ DOMAIN future_to_file = {}
    /\ {features_dict[i].file_path : i \in 1..Len(features_dict)}
           = {f \in Range(js_files) : ~IsEmptyDict(extract_file_features(f))}

\* C20: in process_directory no extraction task is pending once exact-hash
\* grouping has started; the step that submits scoring tasks is taken only
\* when every extraction result is merged, and it builds the candidate list
\* the pairs are taken from; the step that starts clustering is taken only
\* when the result of every scoring task is collected; the step that starts
\* output generation is taken only when clustering has finished.
C20_StrictStageOrdering ==
    [][/\ GroupingStarted' => DOMAIN future_to_file' = {}
       /\ (~GroupingStarted /\ GroupingStarted') => ExtractionMerged
       /\ (~ScoringSubmitted /\ ScoringSubmitted') =>
              /\ ExtractionMerged
              /\ unique_files' = Representatives(hash_groups')
              /\ \A i \in 1..Len(file_pairs') :
                     {file_pairs'[i].file1, file_pairs'[i].file2}
                         \subseteq Range(unique_files')
       /\ ScoringSubmitted => (file_pairs' = file_pairs /\ unique_files' = unique_files)
       /\ (~ClusteringStarted /\ ClusteringStarted') =>
              /\ DOMAIN future_to_pair = {}
              /\ \A i \in 1..Len(file_pairs) :
                     \/ PairScore(i) = None
                     \/ PairScore(i) \in Range(similarity_results)
       /\ ClusteringStarted' => DOMAIN future_to_pair' = {}
       /\ ClusteringStarted => similarity_results' = similarity_results
       /\ (~OutputStarted /\ OutputStarted') =>
              /\ ClusteringStarted
              /\ similar_groups = build_similarity_groups(similarity_results,
                                                          unique_files)
       /\ OutputStarted => similar_groups' = similar_groups
      ]_vars

\* a finished run in which every stage had work: three extraction tasks,
\* three scoring tasks, a near-duplicate group and a written output
C20_Witness ==
    /\ pc = "done"
    /\ Len(js_files) = 3
    /\ Len(file_pairs) = 3
    /\ similar_groups # << >>
    /\ output_dir.report # None

(***************************************************************************)
(* C21  Only the coordinator writes the aggregate structures.              *)
(***************************************************************************)
\* a worker begins or ends a task
WorkerStep == executor'.running # executor.running

\* the structures the coordinator aggregates into; the parent map of the
\* union-find lives inside _build_similarity_groups and shows as
\* similar_groups
Aggregates ==
    <<features_dict, hash_groups, exact_duplicate_groups, unique_files,
      similarity_results, similar_groups>>

\* C21: with a process pool and with a thread pool alike, a step in which a
\* worker begins or ends extract_file_features or calculate_similarity_pair
\* leaves the features map, the hash index, the result list and the groups
\* as they are; the groups (and the parent map behind them) are written
\* only when no task is queued or running.
C21_SingleOwnerMerge ==
    [][/\ WorkerStep => UNCHANGED Aggregates
       /\ (hash_groups' # hash_groups \/ similar_groups' # similar_groups)
              => (executor.running = {} /\ executor.queued = {})
      ]_vars

\* a thread pool with two workers inside their tasks while the coordinator
\* has already merged a result
C21_Witness ==
    /\ frozen
    /\ executor.kind = "thread"
    /\ Cardinality(executor.running) = 2
    /\ (features_dict # << >> \/ similarity_results # << >>)

(***************************************************************************)
(* C22  The pool is bounded.                                               *)
(***************************************************************************)
\* C22: in both phases the number of tasks executing at the same time is at
\* most self.max_workers, which is min(cpu count, 8) when no max_workers was
\* given; with the thread pool of a frozen program it is at most 8 as well.
C22_BoundedPool ==
    /\ Cardinality(executor.running) <= max_workers
    /\ executor.kind # "none" => executor.max_workers <= max_workers
    /\ max_workers_arg = {} => max_workers = Min(cpu_count, 8)
    /\ max_workers_arg # {} => max_workers_arg = {max_workers}
    /\ frozen =>
           /\ Cardinality(executor.running) <= 8
           /\ executor.kind \in {"none", "thread"}
           /\ executor.kind = "thread" => executor.max_workers <= 8

\* every worker of the pool is busy and a task waits in the queue
C22_Witness ==
    /\ pc \in {"extract", "score"}
    /\ Cardinality(executor.running) = executor.max_workers
    /\ executor.queued # {}

(***************************************************************************)
(* C23  The executor is not observable in the results.                     *)
(***************************************************************************)
\* the candidate pairs whose score is a result
ScoredPairs ==
    {i \in 1..Len(file_pairs) : PairScore(i) # None}

PairOf(i) == {file_pairs[i].file1, file_pairs[i].file2}

\* the scoring tasks are one for every two different candidates
PairsOfCandidates ==
    /\ 2 * Len(file_pairs) = Len(unique_files) * (Len(unique_files) - 1)
    /\ \A i \in 1..Len(file_pairs) :
           /\ file_pairs[i].file1 # file_pairs[i].file2
           /\ PairOf(i) \subseteq Range(unique_files)
    /\ \A i, j \in 1..Len(file_pairs) : i # j => PairOf(i) # PairOf(j)
    /\ \A f, g \in Range(unique_files) :
           f # g => \E i \in 1..Len(file_pairs) : PairOf(i) = {f, g}
    /\ DOMAIN future_to_pair \subseteq 1..Len(file_pairs)

\* C24: the step that builds the candidate list of u documents submits
\* u*(u-1)/2 scoring tasks, and from then on the tasks are these: every
\* task is for two different candidates, no two tasks are for the same two
\* candidates, and every two different candidates have their task.
C24_PairEnumeration ==
    [][/\ CandidatesBuilt' => PairsOfCandidates'
       /\ (~CandidatesBuilt /\ CandidatesBuilt') =>
              /\ DOMAIN future_to_pair' = 1..Len(file_pairs')
              /\ 2 * Cardinality(DOMAIN future_to_pair')
                     = Len(unique_files') * (Len(unique_files') - 1)
      ]_vars

\* three candidates and their three scoring tasks, all submitted and none
\* collected yet
C24_Witness ==
    /\ pc = "score"
    /\ Len(unique_files) = 3
    /\ Len(file_pairs) = 3
    /\ DOMAIN future_to_pair = 1..3

(***************************************************************************)
(* C25  Pre-screen and classification.                                     *)
(***************************************************************************)
\* the call was made on two non-empty records with different digests whose
\* size ratio is at least 0.5
Scored ==
    /\ pc = "paired"
    /\ ~IsEmptyDict(pair_args.features1)
    /\ ~IsEmptyDict(pair_args.features2)
    /\ pair_args.features1.content_hash # pair_args.features2.content_hash
    /\ 2 * Min(pair_args.features1.file_size, pair_args.features2.file_size)
           >= Max(pair_args.features1.file_size, pair_args.features2.file_size)

\* 0.4*content + 0.3*structural + 0.15*function + 0.15*variable of the call
WeightedOverall ==
    NumAdd(NumAdd(NumScale(calculate_content_similarity(
                               pair_args.features1, pair_args.features2),
                           Rat(4, 10)),
                  NumScale(calculate_structural_similarity(
                               pair_args.features1, pair_args.features2),
                           Rat(3, 10))),
           NumAdd(NumScale(calculate_set_similarity(
                               pair_args.features1.functions,
                               pair_args.features2.functions),
                           Rat(15, 100)),
                  NumScale(calculate_set_similarity(
                               pair_args.features1.variables,
                               pair_args.features2.variables),
                           Rat(15, 100))))

\* the result of the call agrees with the weighted score of its arguments
Classified ==
    Bind(WeightedOverall, LAMBDA overall :
        /\ pair_result # None
               <=> NumGeq(overall, RMul(Rat(7, 10), pair_args.threshold))
        /\ pair_result # None =>
               /\ pair_result.overall_similarity = overall
               /\ pair_result.is_duplicate
                      <=> NumGeq(overall, pair_args.threshold))

\* the calls that reach the scoring of lines 172-215, on files that each
\* lost MaxPad characters to normalization
ScoreInit ==
    /\ PairInit
    /\ ~IsEmptyDict(pair_args.features1)
    /\ ~IsEmptyDict(pair_args.features2)
    /\ pair_args.features1.file_size
           = Len(pair_args.features1.normalized_content) + MaxPad
    /\ pair_args.features2.file_size
           = Len(pair_args.features2.normalized_content) + MaxPad
    /\ pair_args.features1.content_hash # pair_args.features2.content_hash
    /\ ~size_skipped(pair_args.features1, pair_args.features2)

SpecScore == ScoreInit /\ [][PairNext]_vars

ScaledLarge == MaxLen - 1

\* stands for the 1,000 of line 229
ScaledLimit == MaxLen - 2

\* a record of extract_features with the given normalized content
SampleRecord(normalized) ==
    FeatureRecord(normalized, 0, CHOOSE s \in Shapes : s.functions = {})

SampleInit ==
    /\ pair_args \in {[file1 |-> "file1", file2 |-> "file2",
                       features1 |-> SampleRecord(n1),
                       features2 |-> SampleRecord(n2),
                       threshold |-> One] : n1, n2 \in Contents \ {<< >>}}
    /\ pair_result = None
    /\ pc = "pair"
    /\ input_dir = [exists |-> FALSE, files |-> << >>, unreadable |-> {}]
    /\ broken = {}
    /\ similarity_threshold = pair_args.threshold
    /\ js_files = << >>
    /\ future_to_file = << >>
    /\ features_dict = << >>
    /\ hash_groups = << >>
    /\ exact_duplicate_groups = << >>
    /\ unique_files = << >>
    /\ file_pairs = << >>
    /\ future_to_pair = << >>
    /\ similarity_results = << >>
    /\ similar_groups = << >>
    /\ output_dir = NoOutput
    /\ report = None
    /\ PoolUnused

SampleContent ==
    /\ pc = "pair"
    /\ pair_result' =
           [content_similarity |->
                content_similarity_sampled(
                    pair_args.features1.normalized_content,
                    pair_args.features2.normalized_content,
                    ScaledLarge, ScaledLimit)]
    /\ pc' = "sampled"
    /\ UNCHANGED <<pair_args, input_dir, broken, similarity_threshold, js_files,
                   future_to_file, features_dict, hash_groups,
                   exact_duplicate_groups, unique_files, file_pairs,
                   future_to_pair, similarity_results, similar_groups,
                   output_dir, report>>
    /\ UNCHANGED pool_vars

SampleNext == SampleContent

SpecSample == SampleInit /\ [][SampleNext]_vars

\* C26: when either normalized text is longer than the large-content limit,
\* each text is cut to its own first sample-limit characters before the
\* alignment, a shorter text being kept whole without shortening the other;
\* when neither is longer than the large-content limit both are compared in
\* full.
C26_ContentTruncation ==
    pc = "sampled" =>
        LET content1 == pair_args.features1.normalized_content
            content2 == pair_args.features2.normalized_content
        IN  pair_result.content_similarity =
                IF Len(content1) > ScaledLarge \/ Len(content2) > ScaledLarge
                THEN Num(ratio(Take(content1, ScaledLimit),
                               Take(content2, ScaledLimit)))
                ELSE Num(ratio(content1, content2))


(***************************************************************************)
(* C27  Structural similarity on zero vectors.                             *)
(* calculate_structural_similarity on drawn structure_counts: no entry at  *)
(* all, one or two categories, or all eight as extract_features writes     *)
(* them (lines 104-106).                                                   *)
(***************************************************************************)
StructDicts ==
    UNION {[keys -> 0..1] : keys \in {{}, {"object_literals"},
                                      {"object_literals", "array_literals"}}}
    \cup {Counts(objects, arrays) : objects, arrays \in 0..2}

StructRecord(counts) ==
    [SampleRecord(<<"a">>) EXCEPT !.structure_counts = counts]

StructInit ==
    /\ pair_args \in {[file1 |-> "file1", file2 |-> "file2",
                       features1 |-> StructRecord(d1),
                       features2 |-> StructRecord(d2),
                       threshold |-> One] : d1, d2 \in StructDicts}
    /\ pair_result = None
    /\ pc = "pair"
    /\ input_dir = [exists |-> FALSE, files |-> << >>, unreadable |-> {}]
    /\ broken = {}
    /\ similarity_threshold = pair_args.threshold
    /\ js_files = << >>
    /\ future_to_file = << >>
    /\ features_dict = << >>
    /\ hash_groups = << >>
    /\ exact_duplicate_groups = << >>
    /\ unique_files = << >>
    /\ file_pairs = << >>
    /\ future_to_pair = << >>
    /\ similarity_results = << >>
    /\ similar_groups = << >>
    /\ output_dir = NoOutput
    /\ report = None
    /\ PoolUnused

StructScore ==
    /\ pc = "pair"
    /\ pair_result' =
           [structural_similarity |->
                calculate_structural_similarity(pair_args.features1,
                                                pair_args.features2)]
    /\ pc' = "structured"
    /\ UNCHANGED <<pair_args, input_dir, broken, similarity_threshold, js_files,
                   future_to_file, features_dict, hash_groups,
                   exact_duplicate_groups, unique_files, file_pairs,
                   future_to_pair, similarity_results, similar_groups,
                   output_dir, report>>
    /\ UNCHANGED pool_vars

StructNext == StructScore

SpecStruct == StructInit /\ [][StructNext]_vars

\* every count of the record is zero (a record without entries included)
AllZero(features) ==
    \A k \in DOMAIN features.structure_counts : features.structure_counts[k] = 0

\* the record has no structural-count entry at all
NoEntries(features) == DOMAIN features.structure_counts = {}

\* C27: when at least one record's structural counts are all zero,
\* calculate_structural_similarity returns 1.0 if both records have no
\* structural-count entry at all and 0 otherwise; in particular two records
\* that carry all eight categories with every count zero score 0, not 1.
C27_ZeroVectors ==
    (/\ pc = "structured"
     /\ AllZero(pair_args.features1) \/ AllZero(pair_args.features2)) =>
        /\ (NoEntries(pair_args.features1) /\ NoEntries(pair_args.features2))
               => pair_result.structural_similarity = NumOne
        /\ ~(NoEntries(pair_args.features1) /\ NoEntries(pair_args.features2))
               => pair_result.structural_similarity = NumZero
        /\ pair_result.structural_similarity = NumOne
               => (NoEntries(pair_args.features1) /\ NoEntries(pair_args.features2))

\* two records with all eight categories and no construct, scored 0
C27_Witness ==
    /\ pc = "structured"
    /\ DOMAIN pair_args.features1.structure_counts = Categories
    /\ DOMAIN pair_args.features2.structure_counts = Categories
    /\ AllZero(pair_args.features1)
    /\ AllZero(pair_args.features2)
    /\ pair_result.structural_similarity = NumZero


(***************************************************************************)
(* C28  Output-write failure is non-fatal.                                 *)
(***************************************************************************)
\* a file whose copy fails under both reads is among the files of the run
CopyFails == \E f \in Range(js_files) : f \in input_dir.unreadable

\* the readable file f is in every bucket _generate_output assigns it to
Placed(f) ==
    /\ f \notin AllDuplicates(exact_duplicate_groups, similar_groups) =>
           /\ basename(f) \in DOMAIN output_dir.unique
           /\ basename(f) \in DOMAIN output_dir.merged
    /\ \A i \in 1..Len(exact_duplicate_groups) :
           f \in Range(exact_duplicate_groups[i]) =>
               /\ basename(f) \in DOMAIN output_dir.exact_duplicates[i]
               /\ basename(exact_duplicate_groups[i][1]) \in DOMAIN output_dir.merged
    /\ \A i \in 1..Len(similar_groups) :
           f \in Range(similar_groups[i]) =>
               basename(f) \in DOMAIN output_dir.similar_groups[i]

\* C28: when the copy of a file fails under both reads, _copy_file raises
\* nothing: every other copy and the detailed report are still written, the
\* returned summary is the one computed from the files and the groups, the
\* failed file counted, and process_directory goes on to return.
C28_CopyFailureNonFatal ==
    CopyFails =>
        /\ pc \in {"report", "done"} =>
               /\ output_dir.exists
               /\ output_dir.report =
                      DetailedReport(exact_duplicate_groups, similar_groups,
                                     similarity_results)
               /\ \A f \in Range(js_files) \ input_dir.unreadable : Placed(f)
        /\ pc = "report" => ENABLED Return
        /\ pc = "done" =>
               /\ report = Summary(js_files, exact_duplicate_groups, similar_groups)
               /\ report.total_files = Len(js_files)

\* a run that returned although the copy of a file failed: the files after
\* it in the list of unique files are in unique/, the failed one is not
C28_Witness ==
    /\ pc = "done"
    /\ report # None
    /\ \E i, j \in DOMAIN js_files :
           /\ i < j
           /\ js_files[i] \in input_dir.unreadable
           /\ js_files[j] \notin input_dir.unreadable
           /\ js_files[j] \notin AllDuplicates(exact_duplicate_groups, similar_groups)
           /\ basename(js_files[j]) \in DOMAIN output_dir.unique
           /\ basename(js_files[i]) \notin DOMAIN output_dir.unique


(***************************************************************************)
(* C29  No overwrite in output buckets.                                    *)
(***************************************************************************)
\* the number of files in a folder
FileCount(folder) == Cardinality(DOMAIN folder)

\* C29: after _generate_output, when no copy failed, each bucket holds as
\* many files as documents were assigned to it: unique/ one per unique
\* file, each group folder one per member of the group, merged/ one per
\* unique file and one per group.
C29_NoOverwrite ==
    (pc \in {"report", "done"} /\ input_dir.unreadable = {}) =>
        Bind(UniqueOf(js_files, exact_duplicate_groups, similar_groups), LAMBDA unique :
            /\ FileCount(output_dir.unique) = Len(unique)
            /\ \A i \in 1..Len(exact_duplicate_groups) :
                   FileCount(output_dir.exact_duplicates[i])
                       = Len(exact_duplicate_groups[i])
            /\ \A i \in 1..Len(similar_groups) :
                   FileCount(output_dir.similar_groups[i]) = Len(similar_groups[i])
            /\ FileCount(output_dir.merged)
                   = Len(unique) + Len(exact_duplicate_groups) + Len(similar_groups))


(***************************************************************************)
(* C30  Summary arithmetic.                                                *)
(***************************************************************************)
\* the parts of the claim that do not mention the bound on
\* total_similar_files
SummaryCounts ==
    /\ report.total_files
           = report.unique_files + report.total_exact_duplicates
             + report.total_similar_files
    /\ report.total_files >= 0
    /\ report.unique_files >= 0
    /\ report.total_exact_duplicates >= 0
    /\ report.total_similar_files >= 0
    /\ Len(js_files) >= 1 => report.unique_files >= 1
    /\ report.total_exact_duplicates = Cardinality(Extracted) - Len(hash_groups)

\* C30 as stated: in every returned report the counts add up, are
\* non-negative, unique_files is at least 1 when a file was discovered,
\* total_exact_duplicates is the extracted documents minus the hash buckets,
\* and total_similar_files is at most the hash buckets minus 1.
C30_SummaryArithmeticAsStated ==
    Returned_report =>
        /\ SummaryCounts
        /\ report.total_similar_files <= Len(hash_groups) - 1

\* C30, amended: the same, the bound on total_similar_files holding
\* whenever there is at least one hash bucket (without a bucket it is 0).
C30_SummaryArithmetic ==
    Returned_report =>
        /\ SummaryCounts
        /\ Len(hash_groups) >= 1 =>
               report.total_similar_files <= Len(hash_groups) - 1
        /\ Len(hash_groups) = 0 => report.total_similar_files = 0

\* a returned report with an exact group and a similar group, the bound on
\* total_similar_files met with equality
C30_Witness ==
    /\ Returned_report
    /\ report.total_exact_duplicates >= 1
    /\ report.total_similar_files >= 1
    /\ report.total_similar_files = Len(hash_groups) - 1
    /\ report.unique_files >= 1

=============================================================================
